---- MODULE Spec2Model ----
(***************************************************************************)
(* A model of the PohLang reference interpreter                            *)
(* (src/Interpreter/poh_interpreter.py, src/Interpreter/poh_parser.py).    *)
(*                                                                         *)
(* Part I  : collection provenance and the mutation statements             *)
(*           (Interpreter._exec_stmt, Interpreter._eval on list and        *)
(*           dictionary literals, Interpreter.runtime_warning).            *)
(* Part II : the module resolver (Interpreter.run, Interpreter.run_file,   *)
(*           Interpreter._execute_module, the Import statement,            *)
(*           Environment.set).                                             *)
(***************************************************************************)
EXTENDS Integers, Sequences, FiniteSets, TLC

(***************************************************************************)
(* Bounds of the model.                                                    *)
(***************************************************************************)
\* longest list / dictionary the collection model builds
MaxLen == 2
\* lines the output sink of the collection model holds
MaxOut == 2

(***************************************************************************)
(* Part I.  Collections.                                                   *)
(*                                                                         *)
(* The programs of this part hold one live collection at a time, reachable *)
(* through the names "it" and "xs" (which may alias it, as "Set xs to it"  *)
(* makes them).  Element values are integers, dictionary keys are strings. *)
(* Debug tracing is off (Interpreter.debug_enabled = False).               *)
(***************************************************************************)
VARIABLES
    obj,        \* the live collection object (a PohList, tuple, PohDict or FrozenDict), or NoObj
    cenv,       \* Interpreter.globals.values: name -> TRUE iff the name is bound to obj
    warnings,   \* Interpreter.warnings
    sink,       \* the lines the output sink (output_fn) has received
    cstatus,    \* "idle" (no run active) | "running" | "error" (the run raised RuntimeErrorPoh)
    cerr,       \* the message of the RuntimeErrorPoh that ended the run, "" if none
    lastStmt,   \* the statement executed by the last step (observation of the step)
    taken       \* the value the NthItemExpr of the last step evaluated to, NoItem if none did

collVars == <<obj, cenv, warnings, sink, cstatus, cerr, lastStmt, taken>>

\* the state of the module resolver (Part II)
VARIABLES
    globals,       \* Interpreter.globals.values: name -> value, Unbound if absent
    functions,     \* Interpreter.functions: name -> Function, Unbound if absent
    modules,       \* Interpreter.modules: module name -> exports, NoEntry if absent
    import_stack,  \* Interpreter.import_stack
    loaded_files,  \* Interpreter.loaded_files
    file_stack,    \* Interpreter.file_stack
    current_file,  \* Interpreter.current_file, NoFile for None
    cwd,           \* the working directory of the process (os.getcwd())
    output,        \* the lines output_fn has received
    frames,        \* the active run / run_file invocations, outermost first
    status,        \* "idle" | "running" | "raising" (an exception propagates) | "failed" (the host got it)
    err,           \* the exception being propagated or last delivered to the host
    calls,         \* host calls made so far
    disk,          \* the Import targets written in the files on disk
    exportsOf,     \* observation: path -> the exports computed when that file finished loading
    lastEvent      \* observation: what the last step did, and to which path

modVars == <<globals, functions, modules, import_stack, loaded_files, file_stack,
             current_file, cwd, output, frames, status, err, calls, disk,
             exportsOf, lastEvent>>

\* the state of the executor of functions, blocks and loops (Part III)
VARIABLES
    envs,          \* the Environment objects created so far: index -> [parent, frame_type, values]
    kont,          \* the active _exec_block / execute invocations, outermost first
    call_stack,    \* Interpreter.call_stack
    fout,          \* the lines output_fn has received
    fstatus,       \* "idle" | "running" | "done" | "failed" (RuntimeErrorPoh reached the host) | "escaped" (a signal did)
    ferr,          \* the RuntimeErrorPoh that reached the host
    fprog,         \* the program the host runs
    fevent         \* observation: what the last step did

fnVars == <<envs, kont, call_stack, fout, fstatus, ferr, fprog, fevent>>

vars == <<obj, cenv, warnings, sink, cstatus, cerr, lastStmt, taken,
          globals, functions, modules, import_stack, loaded_files, file_stack,
          current_file, cwd, output, frames, status, err, calls, disk,
          exportsOf, lastEvent,
          envs, kont, call_stack, fout, fstatus, ferr, fprog, fevent>>

CNames == {"it", "xs"}
CVals == 1..2
CKeys == {"a", "b"}
IdxVals == (-1)..(MaxLen + 1)
\* the literals the Write statements print
WriteVals == {1}
\* source lines of the mutation statements (st.line)
Lines == {1}
CFile == "t.poh"

NoObj == [cls |-> "none", mutable |-> FALSE, legacy |-> FALSE, items |-> <<>>]
NoStmt == "none"
NoItem == 0

\* Sequence helpers -------------------------------------------------------
RECURSIVE SeqRemoveFirst(_, _)
\* list.remove(value) with ValueError swallowed: drop the first equal element
SeqRemoveFirst(s, v) ==
    IF s = <<>> THEN <<>>
    ELSE IF Head(s) = v THEN Tail(s)
    ELSE <<Head(s)>> \o SeqRemoveFirst(Tail(s), v)

\* list.pop() guarded by "if container:"
SeqDropLast(s) == IF s = <<>> THEN s ELSE SubSeq(s, 1, Len(s) - 1)

\* dict membership on an insertion-ordered sequence of <<key, value>> pairs
DictHas(d, k) == \E i \in 1..Len(d) : d[i][1] = k

\* target[key] = value : update in place, or append a new entry
DictSet(d, k, v) ==
    IF DictHas(d, k)
    THEN [i \in 1..Len(d) |-> IF d[i][1] = k THEN <<k, v>> ELSE d[i]]
    ELSE Append(d, <<k, v>>)

RECURSIVE DictPop(_, _)
\* target.pop(key, None)
DictPop(d, k) ==
    IF d = <<>> THEN <<>>
    ELSE IF Head(d)[1] = k THEN Tail(d)
    ELSE <<Head(d)>> \o DictPop(Tail(d), k)

\* Runtime classes of the collection values ---------------------------------
\* _eval(ListLiteralExpr): legacy -> PohList(mutable=False, legacy=True),
\* mutable -> PohList(mutable=True, legacy=False), otherwise a tuple.
EvalListLiteral(items, mutable, legacy) ==
    IF legacy THEN [cls |-> "PohList", mutable |-> FALSE, legacy |-> TRUE, items |-> items]
    ELSE IF mutable THEN [cls |-> "PohList", mutable |-> TRUE, legacy |-> FALSE, items |-> items]
    ELSE [cls |-> "tuple", mutable |-> FALSE, legacy |-> FALSE, items |-> items]

\* _eval(DictLiteralExpr): legacy -> PohDict(legacy), mutable -> PohDict(mutable),
\* otherwise a FrozenDict.
EvalDictLiteral(items, mutable, legacy) ==
    IF legacy THEN [cls |-> "PohDict", mutable |-> FALSE, legacy |-> TRUE, items |-> items]
    ELSE IF mutable THEN [cls |-> "PohDict", mutable |-> TRUE, legacy |-> FALSE, items |-> items]
    ELSE [cls |-> "FrozenDict", mutable |-> FALSE, legacy |-> FALSE, items |-> items]

\* isinstance(x, (list, PohList, tuple)) / isinstance(x, dict)
IsListLike(o) == o.cls \in {"tuple", "PohList"}
IsDictLike(o) == o.cls \in {"FrozenDict", "PohDict"}

\* The three provenances of the specification, read off the runtime value
IsStrictImmutable(o) == o.cls \in {"tuple", "FrozenDict"}
IsMutable(o) == o.cls \in {"PohList", "PohDict"} /\ o.mutable
IsLegacy(o) == o.cls \in {"PohList", "PohDict"} /\ ~o.mutable /\ o.legacy

\* Messages -----------------------------------------------------------------
ErrImmList == "Cannot modify immutable list. Did you mean \"Make a mutable list ...\"?"
ErrImmDict == "Cannot modify immutable dictionary. Did you mean \"Make a mutable dictionary ...\"?"
ErrUndefined == "Undefined variable"
\* str(i) of an integer
Digit(d) ==
    CASE d = 0 -> "0" [] d = 1 -> "1" [] d = 2 -> "2" [] d = 3 -> "3" [] d = 4 -> "4"
      [] d = 5 -> "5" [] d = 6 -> "6" [] d = 7 -> "7" [] d = 8 -> "8" [] d = 9 -> "9"
RECURSIVE IntText(_)
IntText(i) ==
    IF i < 0 THEN "-" \o IntText(0 - i)
    ELSE IF i < 10 THEN Digit(i)
    ELSE IntText(i \div 10) \o Digit(i % 10)
\* the message without the number of the index
ErrIndexUnnamed(idx) == "Index is out of range for the list."
ErrIndex(idx) == "Index " \o IntText(idx) \o " is out of range for the list."
WarnList == "Warning: Implicit mutable list is deprecated. Use 'mutable list' instead."
WarnDict == "Warning: Implicit mutable dictionary is deprecated. Use 'mutable dictionary' instead."

\* runtime_warning's line "[file: Line N: Col 1] Warning: ...": the file on top
\* of the file stack, the statement's line, the message
WarningLine(msg, ln) == [kind |-> "warning", file |-> CFile, line |-> ln, text |-> msg]
\* the line a Write statement hands to the sink: str(value)
WriteLine(v) == [kind |-> "write", file |-> "", line |-> 0, text |-> IntText(v)]

AllLists == UNION {[1..n -> CVals] : n \in 0..MaxLen}
DictEntries == {<<k, v>> : k \in CKeys, v \in CVals}
RECURSIVE DistinctKeys(_)
DistinctKeys(d) ==
    IF d = <<>> THEN TRUE
    ELSE ~DictHas(Tail(d), Head(d)[1]) /\ DistinctKeys(Tail(d))
AllDicts == {d \in UNION {[1..n -> DictEntries] : n \in 0..MaxLen} : DistinctKeys(d)}

CInit ==
    /\ obj = NoObj
    /\ cenv = [n \in CNames |-> FALSE]
    /\ warnings = <<>>
    /\ sink = <<>>
    /\ cstatus = "idle"
    /\ cerr = ""
    /\ lastStmt = NoStmt
    /\ taken = NoItem

\* Common shapes of a statement's outcome -----------------------------------
\* the statement completed: the program goes on with its next statement
StmtOk(op) ==
    /\ cstatus' = "running"
    /\ cerr' = ""
    /\ lastStmt' = op
    /\ taken' = NoItem
    /\ UNCHANGED modVars
    /\ UNCHANGED fnVars

\* raise RuntimeErrorPoh(self.runtime_error(msg, node=st)): the run ends
StmtRaise(op, msg) ==
    /\ cstatus' = "error"
    /\ cerr' = msg
    /\ lastStmt' = op
    /\ UNCHANGED <<obj, cenv, warnings, sink>>
    /\ taken' = NoItem
    /\ UNCHANGED modVars
    /\ UNCHANGED fnVars

CanStep == cstatus = "running"

\* Interpreter.run: the host starts a program on the same interpreter instance
CRun ==
    /\ cstatus \in {"idle", "error"}
    /\ cstatus' = "running"
    /\ cerr' = ""
    /\ lastStmt' = NoStmt
    /\ UNCHANGED <<obj, cenv, warnings, sink>>
    /\ taken' = NoItem
    /\ UNCHANGED modVars
    /\ UNCHANGED fnVars

\* Interpreter.run returns after the last statement of the program
CRunEnd ==
    /\ cstatus = "running"
    /\ cstatus' = "idle"
    /\ lastStmt' = NoStmt
    /\ UNCHANGED <<obj, cenv, warnings, sink, cerr>>
    /\ taken' = NoItem
    /\ UNCHANGED modVars
    /\ UNCHANGED fnVars

\* Evaluating the target expression (an identifier): Environment.get --------
Bound(name) == cenv[name]

\* Variants of ApplyMutation with one branch altered -----------------------------
\* the final "raise" is missing: a tuple / FrozenDict is mutated like a mutable one
ApplyMutationUnguarded(op, ln, newItems, warnMsg, immMsg) ==
    IF obj.cls \in {"PohList", "PohDict"} /\ obj.legacy THEN
        /\ Len(sink) < MaxOut
        /\ warnings' = Append(warnings, WarningLine(warnMsg, ln))
        /\ sink' = Append(sink, WarningLine(warnMsg, ln))
        /\ obj' = [obj EXCEPT !.items = newItems]
        /\ UNCHANGED cenv
        /\ StmtOk(op)
    ELSE
        /\ obj' = [obj EXCEPT !.items = newItems]
        /\ UNCHANGED <<cenv, warnings, sink>>
        /\ StmtOk(op)

\* runtime_warning records the line but does not hand it to the output sink
ApplyMutationSilentWarning(op, ln, newItems, warnMsg, immMsg) ==
    IF obj.cls \in {"PohList", "PohDict"} /\ obj.mutable THEN
        /\ obj' = [obj EXCEPT !.items = newItems]
        /\ UNCHANGED <<cenv, warnings, sink>>
        /\ StmtOk(op)
    ELSE IF obj.cls \in {"PohList", "PohDict"} /\ obj.legacy THEN
        /\ Len(sink) < MaxOut
        /\ warnings' = Append(warnings, WarningLine(warnMsg, ln))
        /\ obj' = [obj EXCEPT !.items = newItems]
        /\ UNCHANGED <<cenv, sink>>
        /\ StmtOk(op)
    ELSE
        StmtRaise(op, immMsg)

\* the _mutable test is missing: a mutable collection takes the legacy path
ApplyMutationAlwaysWarns(op, ln, newItems, warnMsg, immMsg) ==
    IF obj.cls \in {"PohList", "PohDict"} /\ (obj.mutable \/ obj.legacy) THEN
        /\ Len(sink) < MaxOut
        /\ warnings' = Append(warnings, WarningLine(warnMsg, ln))
        /\ sink' = Append(sink, WarningLine(warnMsg, ln))
        /\ obj' = [obj EXCEPT !.items = newItems]
        /\ UNCHANGED cenv
        /\ StmtOk(op)
    ELSE
        StmtRaise(op, immMsg)

\* The branch every mutation statement takes once its operands are evaluated
\* and checked:
\*   a PohList / PohDict with _mutable           -> mutate
\*   a PohList / PohDict, not _mutable, _legacy  -> runtime_warning(...), then mutate
\*   otherwise (tuple, FrozenDict)               -> raise "Cannot modify immutable ..."
\* runtime_warning appends the line to self.warnings and hands it to output_fn.
ApplyMutation(op, ln, newItems, warnMsg, immMsg) ==
    IF obj.cls \in {"PohList", "PohDict"} /\ obj.mutable THEN
        /\ obj' = [obj EXCEPT !.items = newItems]
        /\ UNCHANGED <<cenv, warnings, sink>>
        /\ StmtOk(op)
    ELSE IF obj.cls \in {"PohList", "PohDict"} /\ obj.legacy THEN
        /\ Len(sink) < MaxOut
        /\ warnings' = Append(warnings, WarningLine(warnMsg, ln))
        /\ sink' = Append(sink, WarningLine(warnMsg, ln))
        /\ obj' = [obj EXCEPT !.items = newItems]
        /\ UNCHANGED cenv
        /\ StmtOk(op)
    ELSE
        StmtRaise(op, immMsg)

\* a literal is bound to `name` while no other name still refers to the
\* previous collection (one live collection at a time)
SoleRef(name) == \A n \in CNames \ {name} : ~cenv[n]

\* SetStmt("it", ListLiteralExpr(items, mutable=...)) : "Make a [mutable] list of ..."
CMakeList(mutable, items) ==
    /\ CanStep
    /\ SoleRef("it")
    /\ obj' = EvalListLiteral(items, mutable, FALSE)
    /\ cenv' = [cenv EXCEPT !["it"] = TRUE]
    /\ UNCHANGED <<warnings, sink>>
    /\ StmtOk("make")

\* SetStmt("it", DictLiteralExpr(items, mutable=...)) : "Make a [mutable] dictionary with ..."
CMakeDict(mutable, items) ==
    /\ CanStep
    /\ SoleRef("it")
    /\ obj' = EvalDictLiteral(items, mutable, FALSE)
    /\ cenv' = [cenv EXCEPT !["it"] = TRUE]
    /\ UNCHANGED <<warnings, sink>>
    /\ StmtOk("make")

\* SetStmt(name, ListLiteralExpr(items, mutable=True, legacy_literal=True)) :
\* "Set xs to List contains ..."
CSetLegacyList(name, items) ==
    /\ CanStep
    /\ SoleRef(name)
    /\ obj' = EvalListLiteral(items, TRUE, TRUE)
    /\ cenv' = [cenv EXCEPT ![name] = TRUE]
    /\ UNCHANGED <<warnings, sink>>
    /\ StmtOk("make")

\* SetStmt(name, DictLiteralExpr(items, mutable=True, legacy_literal=True)) :
\* "Set d to Dictionary contains ..."
CSetLegacyDict(name, items) ==
    /\ CanStep
    /\ SoleRef(name)
    /\ obj' = EvalDictLiteral(items, TRUE, TRUE)
    /\ cenv' = [cenv EXCEPT ![name] = TRUE]
    /\ UNCHANGED <<warnings, sink>>
    /\ StmtOk("make")

\* SetStmt(name, IdentifierExpr(src)) : "Set xs to it" binds the same object
CSetAlias(name, src) ==
    /\ CanStep
    /\ name # src
    /\ IF Bound(src) THEN
          /\ cenv' = [cenv EXCEPT ![name] = TRUE]
          /\ UNCHANGED <<obj, warnings, sink>>
          /\ StmtOk("set")
       ELSE StmtRaise("set", ErrUndefined)

\* WriteStmt(LiteralExpr(v)) : output_fn(str(v))
CWrite(v) ==
    /\ CanStep
    /\ Len(sink) < MaxOut
    /\ sink' = Append(sink, WriteLine(v))
    /\ UNCHANGED <<obj, cenv, warnings>>
    /\ StmtOk("write")

\* AddToListStmt(value, target)
CAddToList(t, v, ln) ==
    /\ CanStep
    /\ IF ~Bound(t) THEN StmtRaise("AddToList", ErrUndefined)
       ELSE IF ~IsListLike(obj) THEN StmtRaise("AddToList", "Add to expects a list")
       ELSE /\ obj.cls = "PohList" => Len(obj.items) < MaxLen
            /\ ApplyMutation("AddToList", ln, Append(obj.items, v), WarnList, ErrImmList)

\* RemoveFromListStmt(value, target)
CRemoveFromList(t, v, ln) ==
    /\ CanStep
    /\ IF ~Bound(t) THEN StmtRaise("RemoveFromList", ErrUndefined)
       ELSE IF ~IsListLike(obj) THEN StmtRaise("RemoveFromList", "Remove from expects a list")
       ELSE ApplyMutation("RemoveFromList", ln, SeqRemoveFirst(obj.items, v), WarnList, ErrImmList)

\* AddToDictStmt(key, value, target).  A FrozenDict is a dict that is not a
\* PohDict: target[key] = value raises TypeError, reported as the immutable error.
CAddToDict(t, k, v, ln) ==
    /\ CanStep
    /\ IF ~Bound(t) THEN StmtRaise("AddToDict", ErrUndefined)
       ELSE IF ~IsDictLike(obj) THEN
            StmtRaise("AddToDict", "Add to expects a dictionary when using key: value")
       ELSE /\ (obj.cls = "PohDict" /\ ~DictHas(obj.items, k)) => Len(obj.items) < MaxLen
            /\ ApplyMutation("AddToDict", ln, DictSet(obj.items, k, v), WarnDict, ErrImmDict)

\* RemoveFromDictStmt(key, target)
CRemoveFromDict(t, k, ln) ==
    /\ CanStep
    /\ IF ~Bound(t) THEN StmtRaise("RemoveFromDict", ErrUndefined)
       ELSE IF ~IsDictLike(obj) THEN
            StmtRaise("RemoveFromDict", "Remove from expects a dictionary when key is provided")
       ELSE ApplyMutation("RemoveFromDict", ln, DictPop(obj.items, k), WarnDict, ErrImmDict)

\* 1-based index of the phrasal forms: idx0 = idx - 1, in range iff 0 <= idx0 < len
InRange(idx, items) == ~((idx - 1) < 0 \/ (idx - 1) >= Len(items))

\* SetNthItemStmt(index, container, value): container check, index check, then
\* the mutability branch
CSetNthItem(t, idx, v, ln) ==
    /\ CanStep
    /\ IF ~Bound(t) THEN StmtRaise("SetNthItem", ErrUndefined)
       ELSE IF ~IsListLike(obj) THEN StmtRaise("SetNthItem", "Set Nth item expects a list")
       ELSE IF ~InRange(idx, obj.items) THEN StmtRaise("SetNthItem", ErrIndex(idx))
       ELSE ApplyMutation("SetNthItem", ln, [obj.items EXCEPT ![idx] = v], WarnList, ErrImmList)

\* the evaluation of "Take the idx item from t": NthItemExpr(index, container)
CTakeNthItem(t, idx) ==
    /\ CanStep
    /\ IF ~Bound(t) THEN StmtRaise("TakeNthItem", ErrUndefined)
       ELSE IF ~IsListLike(obj) THEN StmtRaise("TakeNthItem", "Nth item expects a list")
       ELSE IF ~InRange(idx, obj.items) THEN StmtRaise("TakeNthItem", ErrIndex(idx))
       ELSE /\ taken' = obj.items[(idx - 1) + 1]
            /\ cstatus' = "running"
            /\ cerr' = ""
            /\ lastStmt' = "TakeNthItem"
            /\ UNCHANGED <<obj, cenv, warnings, sink>>
            /\ UNCHANGED modVars
            /\ UNCHANGED fnVars

\* RemoveLastItemStmt(container)
CRemoveLastItem(t, ln) ==
    /\ CanStep
    /\ IF ~Bound(t) THEN StmtRaise("RemoveLastItem", ErrUndefined)
       ELSE IF ~IsListLike(obj) THEN StmtRaise("RemoveLastItem", "Remove last item expects a list")
       ELSE ApplyMutation("RemoveLastItem", ln, SeqDropLast(obj.items), WarnList, ErrImmList)

\* The value expression of "Remove <value> from <target>" as written in the
\* source: a number, or a string literal in quotes
NumberSrc(v) == [form |-> "number", v |-> v]
QuotedSrc(k) == [form |-> "quoted", v |-> k]
\* value_src.strip().startswith(('"', "'"))
StartsWithQuote(src) == src.form = "quoted"
\* "Remove <value> from <target>": _parse_single_stmt makes a RemoveFromDictStmt
\* of it when the value begins with a quote and a RemoveFromListStmt otherwise;
\* the statement is then executed
CRemove(src, t, ln) ==
    IF StartsWithQuote(src) THEN CRemoveFromDict(t, src.v, ln)
    ELSE CRemoveFromList(t, src.v, ln)

CNext ==
    \/ CRun
    \/ CRunEnd
    \/ \E m \in BOOLEAN, items \in AllLists : CMakeList(m, items)
    \/ \E m \in BOOLEAN, items \in AllDicts : CMakeDict(m, items)
    \/ \E n \in CNames, items \in AllLists : CSetLegacyList(n, items)
    \/ \E n \in CNames, items \in AllDicts : CSetLegacyDict(n, items)
    \/ \E n \in CNames, src \in CNames : CSetAlias(n, src)
    \/ \E v \in WriteVals : CWrite(v)
    \/ \E t \in CNames, v \in CVals, ln \in Lines : CAddToList(t, v, ln)
    \/ \E t \in CNames, v \in CVals, ln \in Lines : CRemove(NumberSrc(v), t, ln)
    \/ \E t \in CNames, k \in CKeys, v \in CVals, ln \in Lines : CAddToDict(t, k, v, ln)
    \/ \E t \in CNames, k \in CKeys, ln \in Lines : CRemove(QuotedSrc(k), t, ln)
    \/ \E t \in CNames, idx \in IdxVals, v \in CVals, ln \in Lines : CSetNthItem(t, idx, v, ln)
    \/ \E t \in CNames, ln \in Lines : CRemoveLastItem(t, ln)
    \/ \E t \in CNames, idx \in IdxVals : CTakeNthItem(t, idx)


(***************************************************************************)
(* Claims about the collections.                                           *)
(***************************************************************************)
MutationOps ==
    {"AddToList", "RemoveFromList", "AddToDict", "RemoveFromDict", "SetNthItem", "RemoveLastItem"}

\* a step that executes one of the six mutation statements with target name t
MutationOn(t) ==
    \/ \E v \in CVals, ln \in Lines : CAddToList(t, v, ln)
    \/ \E v \in CVals, ln \in Lines : CRemoveFromList(t, v, ln)
    \/ \E k \in CKeys, v \in CVals, ln \in Lines : CAddToDict(t, k, v, ln)
    \/ \E k \in CKeys, ln \in Lines : CRemoveFromDict(t, k, ln)
    \/ \E idx \in IdxVals, v \in CVals, ln \in Lines : CSetNthItem(t, idx, v, ln)
    \/ \E ln \in Lines : CRemoveLastItem(t, ln)

\* C1: while the live collection is strict-immutable (a tuple built by "Make a
\* list of ..." or a FrozenDict built by "Make a dictionary with ..."), every
\* step that executes a mutation statement on a name bound to it ends the run
\* with a runtime error, and no step other than binding a new literal changes
\* the collection: its contents stay those of its creation.
C1_ImmutableNeverMutated ==
    [][IsStrictImmutable(obj) =>
          /\ \A t \in CNames : (Bound(t) /\ MutationOn(t)) =>
                (cstatus' = "error" /\ cerr' # "" /\ obj' = obj)
          /\ (lastStmt' # "make") => obj' = obj]_collVars

\* C1 witness: "Remove the last item from xs" on a non-empty tuple has raised
\* the immutable-list error and the tuple still holds its items.
C1_Witness ==
    /\ cstatus = "error"
    /\ cerr = ErrImmList
    /\ lastStmt = "RemoveLastItem"
    /\ obj.cls = "tuple"
    /\ Len(obj.items) = MaxLen

\* the outcome C2 describes for one statement: one warning line appended to
\* the warnings list, the same line appended to the sink, the run goes on
WarnedOnce ==
    /\ Len(warnings') = Len(warnings) + 1
    /\ SubSeq(warnings', 1, Len(warnings)) = warnings
    /\ warnings'[Len(warnings')].kind = "warning"
    /\ sink' = Append(sink, warnings'[Len(warnings')])
    /\ cstatus' = "running"

\* the lines of the sink that are warning lines, in order
RECURSIVE WarningsOf(_)
WarningsOf(s) ==
    IF s = <<>> THEN <<>>
    ELSE IF Head(s).kind = "warning" THEN <<Head(s)>> \o WarningsOf(Tail(s))
    ELSE WarningsOf(Tail(s))

C3_MutableAddAppends ==
    [][(IsMutable(obj) /\ obj.cls = "PohList") =>
          \A t \in CNames, v \in CVals, ln \in Lines : (Bound(t) /\ CAddToList(t, v, ln)) =>
              /\ obj'.items = Append(obj.items, v)
              /\ Len(obj'.items) = Len(obj.items) + 1
              /\ cstatus' = "running"
              /\ cerr' = ""
              /\ warnings' = warnings
              /\ sink' = sink]_collVars

\* C3 witness: an Add has just run on a mutable list that now has MaxLen
\* elements, with no warning recorded or emitted.
C3_Witness ==
    /\ IsMutable(obj)
    /\ obj.cls = "PohList"
    /\ lastStmt = "AddToList"
    /\ cstatus = "running"
    /\ Len(obj.items) = MaxLen
    /\ warnings = <<>>
    /\ sink = <<>>

\* the element of a list at a 0-based position
AtZeroBased(items, k) == items[k + 1]

\* the statement may write to the list object
Writable == IsMutable(obj) \/ IsLegacy(obj)

MaxCalls == 2

Names == {"x", "f", "g"}

\* ---- values ----
Unbound == [t |-> "unbound"]
IntVal(i) == [t |-> "int", i |-> i]
StrVal(s) == [t |-> "str", s |-> s]
\* a Function object: its declaration's name and the file whose load created it
FnVal(name, home) == [t |-> "fn", f |-> name, home |-> home]
IsFunction(v) == v.t = "fn"
EmptyValues == [n \in Names |-> Unbound]
NoEntry == [t |-> "noentry"]

\* str(value) as WriteStmt passes it to output_fn
Str(v) ==
    CASE v.t = "str" -> v.s
      [] v.t = "int" -> (CASE v.i = 1 -> "1" [] v.i = 2 -> "2" [] OTHER -> "?")
      [] OTHER -> "<function>"

\* ---- paths ----
Path(dir, base) == [dir |-> dir, base |-> base]
HostDir == <<>>
StdlibDir == <<"stdlib">>
NoFile == Path(<<>>, "")
Stdin == Path(<<>>, "<stdin>")
MainFile == Path(<<>>, "main")
PFile == Path(HostDir, "p")
QFile == Path(HostDir, "q")
AUtil == Path(<<"a">>, "util")
BUtil == Path(<<"b">>, "util")
SysM == Path(StdlibDir, "sysm")
\* files of the host directory: user imports one file and calls f, lib
\* defines an f whose body fails, bad fails in its second statement, garbled
\* does not parse
UserFile == Path(HostDir, "user")
LibFile == Path(HostDir, "lib")
BadFile == Path(HostDir, "bad")
GarbledFile == Path(HostDir, "garbled")
Files == {PFile, QFile, AUtil, BUtil, SysM, UserFile, LibFile, BadFile, GarbledFile}
\* os.path.splitext(os.path.basename(full))[0]
ModuleName(full) == full.base
ModuleNames == {ModuleName(p) : p \in Files}

\* ---- the abstract syntax the programs use ----
Lit(v) == [k |-> "lit", v |-> v]
Id(n) == [k |-> "id", n |-> n]
SetStmt(name, e) == [op |-> "set", name |-> name, e |-> e]
WriteStmt(e) == [op |-> "write", e |-> e]
FunctionDefStmt(name) == [op |-> "def", name |-> name]
\* "Use name with args": UseStmt(name, args)
UseStmt(name, args) == [op |-> "use", name |-> name, args |-> args]
\* Import "dir/base.poh" (relative or absolute) and Import system "base"
ImportStmt(abs, dir, base) ==
    [op |-> "import", system |-> FALSE, abs |-> abs, dir |-> dir, base |-> base]
ImportSystemStmt(base) ==
    [op |-> "import", system |-> TRUE, abs |-> FALSE, dir |-> <<>>, base |-> base]
NoImport == [op |-> "none"]
Opt(st) == IF st = NoImport THEN <<>> ELSE <<st>>

\* the Import targets a disk may hold, per file
Disks ==
    [ p1   : {ImportStmt(FALSE, <<>>, "q"), ImportStmt(FALSE, <<"a">>, "util"),
              ImportStmt(FALSE, <<>>, "p")},
      p2   : {ImportStmt(FALSE, <<>>, "q"), ImportStmt(FALSE, <<"b">>, "util"),
              ImportSystemStmt("sysm")},
      q    : {ImportStmt(FALSE, <<>>, "p"), ImportStmt(FALSE, <<"a">>, "util"),
              ImportStmt(FALSE, <<>>, "util")},
      a    : {NoImport, ImportStmt(FALSE, <<>>, "util")},
      b    : {NoImport, ImportStmt(TRUE, <<"a">>, "util")},
      main : {ImportStmt(FALSE, <<"a">>, "util"), ImportStmt(FALSE, <<>>, "p"),
              ImportSystemStmt("sysm")},
      user : {ImportStmt(FALSE, <<>>, "lib")} ]
\* disks for the runs that fail: user imports lib, bad, garbled, q, itself or
\* a file that does not exist; q imports p (which imports q) or a/util, and
\* a/util imports nothing or itself
ErrDisks ==
    [ p1   : {ImportStmt(FALSE, <<>>, "q")},
      p2   : {ImportSystemStmt("sysm")},
      q    : {ImportStmt(FALSE, <<>>, "p"), ImportStmt(FALSE, <<"a">>, "util")},
      a    : {NoImport, ImportStmt(FALSE, <<>>, "util")},
      b    : {NoImport},
      main : {ImportStmt(FALSE, <<>>, "user")},
      user : {ImportStmt(FALSE, <<>>, "lib"), ImportStmt(FALSE, <<>>, "bad"),
              ImportStmt(FALSE, <<>>, "garbled"), ImportStmt(FALSE, <<>>, "q"),
              ImportStmt(FALSE, <<>>, "user"), ImportStmt(FALSE, <<>>, "nofile")} ]

\* the parsed program of each file on disk, and of the source the host runs
Source(path) ==
    CASE path = PFile ->
            <<WriteStmt(Lit(StrVal("P"))), disk.p1, SetStmt("x", Lit(IntVal(2))), disk.p2>>
      [] path = QFile ->
            <<FunctionDefStmt("f"), WriteStmt(Lit(StrVal("Q"))), disk.q, SetStmt("g", Id("f"))>>
      [] path = AUtil ->
            <<WriteStmt(Lit(StrVal("A"))), SetStmt("x", Lit(IntVal(2)))>> \o Opt(disk.a)
      [] path = BUtil ->
            <<WriteStmt(Lit(StrVal("B"))), SetStmt("f", Lit(IntVal(1)))>> \o Opt(disk.b)
      [] path = SysM ->
            <<WriteStmt(Lit(StrVal("S"))), SetStmt("g", Lit(IntVal(2)))>>
      [] path = MainFile ->
            <<SetStmt("x", Lit(IntVal(1))), disk.main, WriteStmt(Id("x"))>>
      [] path = UserFile ->
            <<WriteStmt(Lit(StrVal("U"))), disk.user, UseStmt("f", <<>>), SetStmt("x", Lit(IntVal(1)))>>
      [] path = LibFile ->
            <<FunctionDefStmt("f"), WriteStmt(Lit(StrVal("L")))>>
      [] path = BadFile ->
            <<WriteStmt(Lit(StrVal("B"))), WriteStmt(Id("g"))>>
      [] OTHER -> <<>>
\* parse_program raises ParseError on the text of the file
Parses(path) == path # GarbledFile
\* the body of a function: the f of lib writes g, a name lib never binds;
\* every other function writes "F"
FunctionBody(fn) ==
    IF fn.home = LibFile THEN WriteStmt(Id("g")) ELSE WriteStmt(Lit(StrVal("F")))

\* ---- frames ----
\* kind "run" is an invocation of Interpreter.run (env is Interpreter.globals),
\* kind "file" one of Interpreter.run_file (env is its module Environment).
\* prev and cwd_before are the locals of those names; assigned observes the
\* value each name was last given by a Set statement of this program.
Frame(kind, path, env, prev, cwdb) ==
    [kind |-> kind, path |-> path, pc |-> 1, env |-> env, prev |-> prev,
     cwd_before |-> cwdb, assigned |-> EmptyValues]
Top == frames[Len(frames)]
Pop(s) == SubSeq(s, 1, Len(s) - 1)
ReplaceTop(s, f) == [s EXCEPT ![Len(s)] = f]
Program == Source(Top.path)
Stmt == Program[Top.pc]
Event(ev, path) == [ev |-> ev, path |-> path]
NoErr == [kind |-> "none", file |-> NoFile]

\* the file a message of Interpreter.runtime_error is prefixed with
ErrFile ==
    IF file_stack # <<>> THEN file_stack[Len(file_stack)]
    ELSE IF current_file # NoFile THEN current_file ELSE Stdin

\* Environment.get through the chain of the top frame: module scope, then globals
Lookup(name) ==
    IF Top.kind = "file" /\ Top.env[name] # Unbound THEN Top.env[name]
    ELSE globals[name]

\* Interpreter._eval of a literal or an identifier; Unbound stands for the
\* "Undefined variable" error
Eval(e) ==
    IF e.k = "lit" THEN e.v
    ELSE IF Lookup(e.n) # Unbound THEN Lookup(e.n)
    ELSE functions[e.n]

\* the function definitions of a program (the first pass of execute / _execute_module)
RECURSIVE Hoist(_, _, _)
Hoist(prog, home, vals) ==
    IF prog = <<>> THEN vals
    ELSE LET st == Head(prog)
         IN  Hoist(Tail(prog), home,
                   IF st.op = "def" THEN [vals EXCEPT ![st.name] = FnVal(st.name, home)]
                   ELSE vals)

\* the path an Import statement hands to run_file
Resolve(st) ==
    IF st.system THEN Path(StdlibDir, st.base)
    ELSE IF st.abs THEN Path(st.dir, st.base)
    ELSE Path(cwd \o st.dir, st.base)

OnImportStack(full) == \E i \in DOMAIN import_stack : import_stack[i] = full

\* the exports of a finished module environment
Exports(env) == [n \in Names |-> IF functions[n] = Unbound THEN env[n] ELSE Unbound]

\* the tail of the non-system Import statement: define in env every key of the
\* registry entry that env does not hold
Inject(env, entry) ==
    IF entry = NoEntry THEN env
    ELSE [n \in Names |-> IF env[n] = Unbound THEN entry[n] ELSE env[n]]

\* the caller's frame once its Import statement has returned
AfterImport(caller, registry, full) ==
    LET st == Source(caller.path)[caller.pc]
        env1 == IF ~st.system /\ caller.kind = "file"
                THEN Inject(caller.env, registry[ModuleName(full)])
                ELSE caller.env
    IN  [caller EXCEPT !.env = env1, !.pc = caller.pc + 1]

\* Part III before the host runs a program
NoProgram == [id |-> "none"]
FInit ==
    /\ envs = <<>>
    /\ kont = <<>>
    /\ call_stack = <<>>
    /\ fout = <<>>
    /\ fstatus = "idle"
    /\ ferr = [kind |-> "none"]
    /\ fprog = NoProgram
    /\ fevent = [ev |-> "none"]

\* a fresh Interpreter, and one of the disks
InitOn(disks) ==
    /\ globals = EmptyValues
    /\ functions = EmptyValues
    /\ modules = [m \in ModuleNames |-> NoEntry]
    /\ import_stack = <<>>
    /\ loaded_files = {}
    /\ file_stack = <<>>
    /\ current_file = NoFile
    /\ cwd = HostDir
    /\ output = <<>>
    /\ frames = <<>>
    /\ status = "idle"
    /\ err = NoErr
    /\ calls = 0
    /\ disk \in disks
    /\ exportsOf = [p \in Files |-> NoEntry]
    /\ lastEvent = Event("none", NoFile)
    /\ CInit
    /\ FInit
Init == InitOn(Disks)
InitErr == InitOn(ErrDisks)

\* ---- run_file, from its first line to the start of the module's statements ----
\* raise RuntimeErrorPoh(runtime_error(...)) out of run_file
Raise(kind, full) ==
    /\ status' = IF frames = <<>> THEN "failed" ELSE "raising"
    /\ err' = [kind |-> kind, file |-> ErrFile]
    /\ lastEvent' = Event(kind, full)
    /\ UNCHANGED <<globals, functions, modules, import_stack, loaded_files, file_stack,
                   current_file, cwd, output, frames, exportsOf>>

\* parse_program raises ParseError out of run_file, whose finally clauses
\* undo the pushes and the chdir made before it; the message of a ParseError
\* names <stdin>
RaiseParse(full) ==
    /\ status' = IF frames = <<>> THEN "failed" ELSE "raising"
    /\ err' = [kind |-> "parse", file |-> Stdin]
    /\ lastEvent' = Event("parse", full)
    /\ UNCHANGED <<globals, functions, modules, import_stack, loaded_files, file_stack,
                   current_file, cwd, output, frames, exportsOf>>

\* "if full in self.loaded_files: return", and the rest of the Import statement
ReturnLoaded(full) ==
    /\ frames' = IF frames = <<>> THEN frames
                 ELSE ReplaceTop(frames, AfterImport(Top, modules, full))
    /\ status' = IF frames = <<>> THEN "idle" ELSE status
    /\ err' = IF frames = <<>> THEN NoErr ELSE err
    /\ lastEvent' = Event("noop", full)
    /\ UNCHANGED <<globals, functions, modules, import_stack, loaded_files, file_stack,
                   current_file, cwd, output, exportsOf>>

\* open, chdir, parse, and the first pass of _execute_module
EnterFile(full) ==
    LET defs == Hoist(Source(full), full, EmptyValues)
    IN  /\ import_stack' = Append(import_stack, full)
        /\ cwd' = full.dir
        /\ current_file' = full
        /\ file_stack' = Append(file_stack, full)
        /\ functions' = [n \in Names |-> IF defs[n] # Unbound THEN defs[n] ELSE functions[n]]
        /\ frames' = Append(frames, Frame("file", full, defs, current_file, cwd))
        /\ status' = "running"
        /\ err' = IF frames = <<>> THEN NoErr ELSE err
        /\ lastEvent' = Event("enter", full)
        /\ UNCHANGED <<globals, modules, loaded_files, output, exportsOf>>

\* run_file without the check of the import stack
RunFileNoCycleCheck(full) ==
    IF full \in loaded_files THEN ReturnLoaded(full)
    ELSE IF full \notin Files THEN Raise("notfound", full)
    ELSE IF ~Parses(full) THEN RaiseParse(full)
    ELSE EnterFile(full)

\* run_file without the check of loaded_files
RunFileReloads(full) ==
    IF OnImportStack(full) THEN Raise("circular", full)
    ELSE IF full \notin Files THEN Raise("notfound", full)
    ELSE IF ~Parses(full) THEN RaiseParse(full)
    ELSE EnterFile(full)

RunFile(full) ==
    IF OnImportStack(full) THEN Raise("circular", full)
    ELSE IF full \in loaded_files THEN ReturnLoaded(full)
    ELSE IF full \notin Files THEN Raise("notfound", full)
    ELSE IF ~Parses(full) THEN RaiseParse(full)
    ELSE EnterFile(full)

\* ---- the host ----
HostReady == status \in {"idle", "failed"} /\ calls < MaxCalls

\* interp.run_file(path)
HostRunFile(path) ==
    /\ HostReady
    /\ calls' = calls + 1
    /\ RunFile(path)
    /\ UNCHANGED <<disk, collVars, fnVars>>

\* interp.run(src, filename="main"): the first pass of execute binds the
\* program's functions in Interpreter.functions and in the globals
HostRun ==
    LET defs == Hoist(Source(MainFile), MainFile, EmptyValues)
    IN  /\ HostReady
        /\ calls' = calls + 1
        /\ file_stack' = Append(file_stack, MainFile)
        /\ current_file' = MainFile
        /\ functions' = [n \in Names |-> IF defs[n] # Unbound THEN defs[n] ELSE functions[n]]
        /\ globals' = [n \in Names |-> IF defs[n] # Unbound THEN defs[n] ELSE globals[n]]
        /\ frames' = <<Frame("run", MainFile, EmptyValues, current_file, cwd)>>
        /\ status' = "running"
        /\ err' = NoErr
        /\ lastEvent' = Event("run", MainFile)
        /\ UNCHANGED <<modules, import_stack, loaded_files, cwd, output, exportsOf,
                       disk, collVars, fnVars>>

\* ---- the statements of the second pass ----
AtStmt(op) ==
    /\ status = "running"
    /\ frames # <<>>
    /\ Top.pc <= Len(Program)
    /\ Stmt.op = op

\* raise RuntimeErrorPoh(runtime_error("Undefined variable ...")) out of _eval
RaiseUndefined ==
    /\ status' = "raising"
    /\ err' = [kind |-> "undefined", file |-> ErrFile]
    /\ lastEvent' = Event("undefined", Top.path)
    /\ UNCHANGED <<globals, functions, modules, import_stack, loaded_files, file_stack,
                   current_file, cwd, output, frames, exportsOf>>

\* Environment.set(name, v) from the environment of the top frame
EnvSet(name, v) ==
    LET f == [Top EXCEPT !.pc = Top.pc + 1, !.assigned[name] = v]
    IN  IF Top.kind = "file" /\ (Top.env[name] # Unbound \/ globals[name] = Unbound)
        THEN \* case 1, or case 3 in the module frame
             /\ frames' = ReplaceTop(frames, [f EXCEPT !.env[name] = v])
             /\ globals' = globals
        ELSE \* the globals define it (case 2), or the frame is the global one
             /\ frames' = ReplaceTop(frames, f)
             /\ globals' = [globals EXCEPT ![name] = v]

ExecSet ==
    /\ AtStmt("set")
    /\ LET v == Eval(Stmt.e)
       IN  IF v = Unbound THEN RaiseUndefined
           ELSE /\ EnvSet(Stmt.name, v)
                /\ lastEvent' = Event("set", Top.path)
                /\ UNCHANGED <<functions, modules, import_stack, loaded_files, file_stack,
                               current_file, cwd, output, status, err, exportsOf>>
    /\ UNCHANGED <<calls, disk, collVars, fnVars>>

ExecWrite ==
    /\ AtStmt("write")
    /\ LET v == Eval(Stmt.e)
       IN  IF v = Unbound THEN RaiseUndefined
           ELSE /\ output' = Append(output, Str(v))
                /\ frames' = ReplaceTop(frames, [Top EXCEPT !.pc = Top.pc + 1])
                /\ lastEvent' = Event("write", Top.path)
                /\ UNCHANGED <<globals, functions, modules, import_stack, loaded_files,
                               file_stack, current_file, cwd, status, err, exportsOf>>
    /\ UNCHANGED <<calls, disk, collVars, fnVars>>

\* "if isinstance(st, FunctionDefStmt): continue"
ExecFunctionDef ==
    /\ AtStmt("def")
    /\ frames' = ReplaceTop(frames, [Top EXCEPT !.pc = Top.pc + 1])
    /\ lastEvent' = Event("def", Top.path)
    /\ UNCHANGED <<globals, functions, modules, import_stack, loaded_files, file_stack,
                   current_file, cwd, output, status, err, exportsOf, calls, disk, collVars, fnVars>>

\* UseStmt: the function of the name in Interpreter.functions is called and
\* its body, one Write, runs in a frame whose parent is the function's
\* closure; the name it reads is bound neither there nor in the module of the
\* function, so that the globals and then the functions are searched.  The
\* call pushes nothing on the file stack: runtime_error takes the file on its
\* top, while the event records the file the failing statement is in.
ExecUse ==
    /\ AtStmt("use")
    /\ LET fn == functions[Stmt.name]
           e == FunctionBody(fn).e
           v == IF e.k = "lit" THEN e.v
                ELSE IF globals[e.n] # Unbound THEN globals[e.n] ELSE functions[e.n]
       IN  IF fn = Unbound
           THEN /\ status' = "raising"
                /\ err' = [kind |-> "unknownfn", file |-> ErrFile]
                /\ lastEvent' = Event("unknownfn", Top.path)
                /\ UNCHANGED <<output, frames>>
           ELSE IF v = Unbound
           THEN /\ status' = "raising"
                /\ err' = [kind |-> "undefined", file |-> ErrFile]
                /\ lastEvent' = Event("undefined", fn.home)
                /\ UNCHANGED <<output, frames>>
           ELSE /\ output' = Append(output, Str(v))
                /\ frames' = ReplaceTop(frames, [Top EXCEPT !.pc = Top.pc + 1])
                /\ lastEvent' = Event("use", Top.path)
                /\ UNCHANGED <<status, err>>
    /\ UNCHANGED <<globals, functions, modules, import_stack, loaded_files, file_stack,
                   current_file, cwd, exportsOf, calls, disk, collVars, fnVars>>

\* the Import statement up to the point where run_file raises, returns at
\* once, or starts the target's statements
ExecImport ==
    /\ AtStmt("import")
    /\ RunFile(Resolve(Stmt))
    /\ UNCHANGED <<calls, disk, collVars, fnVars>>

\* ---- the ends of run_file and run ----
AtEnd(kind) ==
    /\ status = "running"
    /\ frames # <<>>
    /\ Top.kind = kind
    /\ Top.pc > Len(Program)

\* exports, registry entry, the finally clauses, loaded_files.add, and the rest
\* of the Import statement that called run_file
FinishFile ==
    /\ AtEnd("file")
    /\ LET full == Top.path
           exports == Exports(Top.env)
           registry == [modules EXCEPT ![ModuleName(full)] = exports]
       IN  /\ modules' = registry
           /\ exportsOf' = [exportsOf EXCEPT ![full] = exports]
           /\ file_stack' = Pop(file_stack)
           /\ current_file' = Top.prev
           /\ cwd' = Top.cwd_before
           /\ loaded_files' = loaded_files \cup {full}
           /\ import_stack' = Pop(import_stack)
           /\ frames' = IF Len(frames) = 1 THEN <<>>
                        ELSE ReplaceTop(Pop(frames),
                                        AfterImport(frames[Len(frames) - 1], registry, full))
           /\ status' = IF Len(frames) = 1 THEN "idle" ELSE "running"
           /\ lastEvent' = Event("finish", full)
    /\ UNCHANGED <<globals, functions, output, err, calls, disk, collVars, fnVars>>

\* the finally clause of run
FinishRun ==
    /\ AtEnd("run")
    /\ current_file' = Top.prev
    /\ file_stack' = Pop(file_stack)
    /\ frames' = Pop(frames)
    /\ status' = "idle"
    /\ lastEvent' = Event("endrun", Top.path)
    /\ UNCHANGED <<globals, functions, modules, import_stack, loaded_files, cwd, output,
                   err, exportsOf, calls, disk, collVars, fnVars>>

\* an unwinding that leaves the working directory where the file had put it
UnwindKeepsCwd ==
    /\ status = "raising"
    /\ frames # <<>>
    /\ file_stack' = Pop(file_stack)
    /\ current_file' = Top.prev
    /\ cwd' = cwd
    /\ import_stack' = IF Top.kind = "file" THEN Pop(import_stack) ELSE import_stack
    /\ frames' = Pop(frames)
    /\ status' = IF Len(frames) = 1 THEN "failed" ELSE "raising"
    /\ lastEvent' = Event("unwind", Top.path)
    /\ UNCHANGED <<globals, functions, modules, loaded_files, output, err, exportsOf,
                   calls, disk, collVars, fnVars>>

\* an unwinding that marks the file it leaves as loaded
UnwindMarksLoaded ==
    /\ status = "raising"
    /\ frames # <<>>
    /\ file_stack' = Pop(file_stack)
    /\ current_file' = Top.prev
    /\ cwd' = IF Top.kind = "file" THEN Top.cwd_before ELSE cwd
    /\ import_stack' = IF Top.kind = "file" THEN Pop(import_stack) ELSE import_stack
    /\ loaded_files' = IF Top.kind = "file" THEN loaded_files \cup {Top.path} ELSE loaded_files
    /\ frames' = Pop(frames)
    /\ status' = IF Len(frames) = 1 THEN "failed" ELSE "raising"
    /\ lastEvent' = Event("unwind", Top.path)
    /\ UNCHANGED <<globals, functions, modules, output, err, exportsOf,
                   calls, disk, collVars, fnVars>>

\* an exception leaves the innermost invocation through its finally clauses
Unwind ==
    /\ status = "raising"
    /\ frames # <<>>
    /\ file_stack' = Pop(file_stack)
    /\ current_file' = Top.prev
    /\ cwd' = IF Top.kind = "file" THEN Top.cwd_before ELSE cwd
    /\ import_stack' = IF Top.kind = "file" THEN Pop(import_stack) ELSE import_stack
    /\ frames' = Pop(frames)
    /\ status' = IF Len(frames) = 1 THEN "failed" ELSE "raising"
    /\ lastEvent' = Event("unwind", Top.path)
    /\ UNCHANGED <<globals, functions, modules, loaded_files, output, err, exportsOf,
                   calls, disk, collVars, fnVars>>

HostPaths == {PFile, QFile, AUtil, BUtil}

Next ==
    \/ HostRun
    \/ \E path \in HostPaths : HostRunFile(path)
    \/ ExecSet
    \/ ExecWrite
    \/ ExecFunctionDef
    \/ ExecImport
    \/ FinishFile
    \/ FinishRun
    \/ Unwind

Spec == Init /\ [][Next]_vars

\* the runs that fail: the host runs the main program, or one of the files of
\* the host directory, on one of the disks of ErrDisks
ErrHostPaths == {UserFile, BadFile, GarbledFile, QFile}
NextErr ==
    \/ HostRun
    \/ \E path \in ErrHostPaths : HostRunFile(path)
    \/ ExecSet
    \/ ExecWrite
    \/ ExecFunctionDef
    \/ ExecImport
    \/ ExecUse
    \/ FinishFile
    \/ FinishRun
    \/ Unwind

SpecErr == InitErr /\ [][NextErr]_vars

\* the collection programs of Part I, run on an interpreter that imports nothing
CollInit == Init /\ disk = CHOOSE d \in Disks : TRUE

SpecColl == CollInit /\ [][CNext]_vars

(***************************************************************************)
(* Claims about the module resolver.                                       *)
(***************************************************************************)
\* a call of run_file(full) is about to be made by the Import statement at
\* the top frame
Importing(full) == AtStmt("import") /\ Resolve(Stmt) = full

NoDuplicates(s) == \A i, j \in DOMAIN s : i # j => s[i] # s[j]

\* the paths of the run_file invocations in progress, outermost first
RECURSIVE FilePaths(_)
FilePaths(fr) ==
    IF fr = <<>> THEN <<>>
    ELSE IF Head(fr).kind = "file" THEN <<Head(fr).path>> \o FilePaths(Tail(fr))
    ELSE FilePaths(Tail(fr))

\* C4: run_file on a path that is on the active import stack raises the
\* "Circular import detected" error and executes no statement of that file:
\* the step starts no invocation, writes nothing and changes no binding, no
\* registry entry and no stack.  So no file is ever being executed twice at
\* the same time: the import stack holds each path at most once and is the
\* list of the run_file invocations in progress, whose depth the number of
\* files therefore bounds.
C4_CircularImportRaises ==
    /\ [](NoDuplicates(import_stack) /\ FilePaths(frames) = import_stack)
    /\ [][\A full \in Files :
            (Importing(full) /\ OnImportStack(full)) =>
                /\ status' = "raising"
                /\ err' = [kind |-> "circular", file |-> Top.path]
                /\ UNCHANGED <<frames, output, globals, functions, modules,
                               import_stack, loaded_files, file_stack>>]_vars

\* a cycle through two files has just been refused
C4_Witness ==
    /\ lastEvent.ev = "circular"
    /\ status = "raising"
    /\ Len(import_stack) >= 2
    /\ lastEvent.path = import_stack[1]

\* the line each file writes when its statements execute
Tag(path) ==
    CASE path = PFile -> "P" [] path = QFile -> "Q" [] path = AUtil -> "A"
      [] path = BUtil -> "B" [] path = SysM -> "S"

RECURSIVE Count(_, _)
Count(s, x) ==
    IF s = <<>> THEN 0 ELSE (IF Head(s) = x THEN 1 ELSE 0) + Count(Tail(s), x)

\* C5: run_file on a path that is already loaded is a no-op: the step starts
\* no invocation, writes nothing and changes no binding, registry entry or
\* stack; once a file is loaded none of its statements executes again, and
\* the line a loaded file writes is in the output exactly once however many
\* Import statements named the file.
C5_LoadedImportIsNoOp ==
    /\ [](\A full \in loaded_files : Count(output, Tag(full)) = 1)
    /\ [][\A full \in Files :
            /\ (Importing(full) /\ full \in loaded_files) =>
                   /\ Len(frames') = Len(frames)
                   /\ status' = "running"
                   /\ UNCHANGED <<output, globals, functions, modules, import_stack,
                                  loaded_files, file_stack, current_file, cwd>>
            /\ (full \in loaded_files) =>
                   /\ Count(output', Tag(full)) = Count(output, Tag(full))
                   /\ full \in loaded_files'
                   /\ FilePaths(frames') = import_stack'
                   /\ ~OnImportStack(full)']_vars

\* an Import statement has named a/util.poh after it was loaded, with another
\* file loaded as well, and the line of a/util.poh is in the output once
C5_Witness ==
    /\ lastEvent = Event("noop", AUtil)
    /\ frames # <<>>
    /\ Cardinality(loaded_files) >= 2
    /\ Count(output, "A") = 1

\* the top frame executes a file that a non-system Import statement started
InImportedFile ==
    /\ status = "running"
    /\ Len(frames) >= 2
    /\ Top.kind = "file"
    /\ ~Source(frames[Len(frames) - 1].path)[frames[Len(frames) - 1].pc].system

\* C6: executing an imported (non-system) file never creates or changes a
\* variable binding of the global environment.
C6_ImportLeavesGlobals ==
    [][InImportedFile => globals' = globals]_vars

\* the entry the claim describes for a finished invocation: the names its
\* program assigned whose values are not functions, with their last values
AssignedNonFunctions(fr) ==
    [n \in Names |-> IF IsFunction(fr.assigned[n]) THEN Unbound ELSE fr.assigned[n]]

\* C7: when run_file finishes loading a file, the registry entry under the
\* file's base name holds exactly the variables the file assigned at its top
\* level whose values are not functions, each with its final value.
C7_RegistryEntryExact ==
    [][AtEnd("file") =>
          modules'[ModuleName(Top.path)] = AssignedNonFunctions(Top)]_vars

\* the importing frame's bindings before and after a non-system Import of
\* full returned, given the exports of the file full
Bound8(before, after, exports) ==
    \A n \in Names :
        after.env[n] = IF before.env[n] # Unbound THEN before.env[n] ELSE exports[n]

AtEndOfSystemImport ==
    /\ AtEnd("file")
    /\ Len(frames) >= 2
    /\ Source(frames[Len(frames) - 1].path)[frames[Len(frames) - 1].pc].system

\* C9: after a system import every variable the imported file assigned at
\* its top level is readable from the global environment.
C9_SystemImportBindsGlobals ==
    [][AtEndOfSystemImport =>
          \A n \in Names :
              Top.assigned[n] # Unbound => globals'[n] = Top.assigned[n]]_vars

\* C10: an entry of the module registry, once made, is never replaced,
\* altered or removed.
C10_RegistryEntriesStable ==
    [][\A m \in ModuleNames : modules[m] # NoEntry => modules'[m] = modules[m]]_vars

(***************************************************************************)
(* Part III.  Functions, blocks and loops.                                 *)
(*                                                                         *)
(* One Interpreter object runs one program.  The machine executes one      *)
(* statement per step; the Python call stack of _exec_stmt, _exec_block    *)
(* and Function.call is the sequence kont, the Environment objects are the *)
(* entries of envs (entry 1 is Interpreter.globals), and a parent link is  *)
(* the index of the parent entry (0 for none).                             *)
(***************************************************************************)

\* the largest argument a host program passes to a function
MaxArg == 2

\* ---- values ----
BoolVal(b) == [t |-> "bool", b |-> b]
Nothing == [t |-> "none"]
\* a Function object that closes over the globals whatever frame defines it
FunctionGlobal(decl, closure) == [t |-> "function", decl |-> decl, closure |-> 1]
\* a Function object: its declaration and the environment it closes over
Function(decl, closure) == [t |-> "function", decl |-> decl, closure |-> closure]
\* a Python list (a PohList is one)
ListVal(items) == [t |-> "list", items |-> items]
\* a Python tuple, the value of a strict-immutable list literal
TupleVal(items) == [t |-> "tuple", items |-> items]
\* the RuntimeErrorPoh an evaluation ends in, as the words of its message
Failure(words) == [t |-> "error", words |-> words]
IsFailure(v) == v.t = "error"
Quoted(name) == "'" \o name \o "'"
ErrUndefinedVariable(name) == <<"Undefined", "variable", Quoted(name)>>

\* bool(v)
IsTruthy(v) ==
    CASE v.t = "bool" -> v.b
      [] v.t = "int" -> v.i # 0
      [] v.t = "none" -> FALSE
      [] v.t \in {"list", "tuple"} -> v.items # <<>>
      [] OTHER -> TRUE

\* str(v) of the values the programs write
StrOf(v) ==
    CASE v.t = "int" -> IntText(v.i)
      [] v.t = "bool" -> (IF v.b THEN "True" ELSE "False")
      [] v.t = "none" -> "None"
      [] OTHER -> "<object>"

\* ---- syntax ----
\* expressions: Lit and Id as above, and
BinaryExpr(op, left, right) == [k |-> "binary", op |-> op, left |-> left, right |-> right]
\* the legacy literal "List contains a, b"
ListLiteralExpr(items) ==
    [k |-> "list", items |-> items, mutable |-> FALSE, legacy_literal |-> TRUE]
\* the literal of "Make a list of a, b" and "Make a mutable list of a, b"
MakeListExpr(items, mutable) ==
    [k |-> "list", items |-> items, mutable |-> mutable, legacy_literal |-> FALSE]
CallExpr(name, args) == [k |-> "call", name |-> name, args |-> args]
Num(i) == Lit(IntVal(i))
\* statements: SetStmt and WriteStmt as above, and
IfStmt(condition, then_body, else_body) ==
    [op |-> "if", condition |-> condition, then_body |-> then_body, else_body |-> else_body]
\* an If without Otherwise
NoElse == <<[op |-> "absent"]>>
WhileStmt(condition, body) == [op |-> "while", condition |-> condition, body |-> body]
RepeatStmt(count, body) == [op |-> "repeat", count |-> count, body |-> body]
BlockStmt(body) == [op |-> "begin", body |-> body]
StopStmt == [op |-> "stop"]
SkipStmt == [op |-> "skip"]
ReturnStmt(value) == [op |-> "return", e |-> value]
\* a parameter without default
NoDefault == [k |-> "absent"]
\* Make name with params ... End, written on the given line
FunctionDef(name, params, defaults, body, line) ==
    [op |-> "def", name |-> name, params |-> params, defaults |-> defaults,
     body |-> body, line |-> line]

\* ---- environments ----
NoEnv == 0
GlobalEnv == 1
NoValues == [n \in {} |-> Unbound]
Environment(parent, frame_type) ==
    [parent |-> parent, frame_type |-> frame_type, values |-> NoValues]
\* Environment.get; Unbound stands for the "Undefined variable" error
RECURSIVE EnvGet(_, _, _)
EnvGet(h, e, name) ==
    IF name \in DOMAIN h[e].values THEN h[e].values[name]
    ELSE IF h[e].parent # NoEnv THEN EnvGet(h, h[e].parent, name)
    ELSE Unbound
\* the closest frame from e outwards that holds name, NoEnv if none does
RECURSIVE Defining(_, _, _)
Defining(h, e, name) ==
    IF e = NoEnv THEN NoEnv
    ELSE IF name \in DOMAIN h[e].values THEN e
    ELSE Defining(h, h[e].parent, name)
EnvDefine(h, e, name, v) == [h EXCEPT ![e].values = (name :> v) @@ @]
\* an assignment that always binds in the frame itself
EnvironmentSetLocal(h, e, name, v) == EnvDefine(h, e, name, v)
\* an assignment that binds every new name in the globals
EnvironmentSetGlobal(h, e, name, v) ==
    LET d == Defining(h, e, name)
    IN  EnvDefine(h, IF d # NoEnv THEN d ELSE GlobalEnv, name, v)
\* Environment.set: the closest frame that holds the name, else the frame itself
EnvironmentSet(h, e, name, v) ==
    LET d == Defining(h, e, name)
    IN  EnvDefine(h, IF d # NoEnv THEN d ELSE e, name, v)
\* the frames from e outwards
RECURSIVE Chain(_, _)
Chain(h, e) == IF e = NoEnv THEN {} ELSE {e} \cup Chain(h, h[e].parent)

\* ---- the registry and expression evaluation ----
\* the FunctionDefStmt statements among a sequence of statements
RECURSIVE Defs(_)
Defs(stmts) ==
    IF stmts = <<>> THEN {}
    ELSE (IF Head(stmts).op = "def" THEN {Head(stmts)} ELSE {}) \cup Defs(Tail(stmts))
\* Interpreter.functions after the first pass of execute: every top-level
\* definition of the program, closed over the globals
Registry(prog) ==
    IF prog = NoProgram THEN NoValues
    ELSE [n \in {d.name : d \in Defs(prog.stmts)} |->
             Function(CHOOSE d \in Defs(prog.stmts) : d.name = n, GlobalEnv)]
\* Interpreter._eval of an expression without calls, against the frames h
RECURSIVE EvalExpr(_, _, _)
EvalExpr(h, e, env) ==
    CASE e.k = "lit" -> e.v
      [] e.k = "id" ->
            LET v == EnvGet(h, env, e.n)
            IN  IF v # Unbound THEN v
                ELSE IF e.n \in DOMAIN Registry(fprog) THEN Registry(fprog)[e.n]
                ELSE Failure(ErrUndefinedVariable(e.n))
      [] e.k = "binary" ->
            LET l == EvalExpr(h, e.left, env)
                r == EvalExpr(h, e.right, env)
            IN  IF IsFailure(l) THEN l
                ELSE IF IsFailure(r) THEN r
                ELSE (CASE e.op = "+" -> IntVal(l.i + r.i)
                        [] e.op = "<" -> BoolVal(l.i < r.i)
                        [] e.op = "==" -> BoolVal(l = r))
      [] e.k = "list" ->
            LET vals == [i \in DOMAIN e.items |-> EvalExpr(h, e.items[i], env)]
            IN  IF e.legacy_literal \/ e.mutable THEN ListVal(vals) ELSE TupleVal(vals)

\* ---- the stack of running blocks ----
NoResult == [t |-> "noresult"]
\* one activation of _exec_block (or of the second pass of execute): the
\* statements, the position of the next one, the frame they run in, the kind
\* of construct that runs them, for a Repeat the iteration values still to
\* come and whether each is bound to "it", and the value of the call the
\* current statement has made, once it has returned
Item(k, body, env, rest, bindIt) ==
    [k |-> k, body |-> body, pc |-> 1, env |-> env, rest |-> rest, bindIt |-> bindIt,
     res |-> NoResult]
TopItem == kont[Len(kont)]
AtBlockEnd == fstatus = "running" /\ kont # <<>> /\ TopItem.pc > Len(TopItem.body)
Cur == TopItem.body[TopItem.pc]
At(op) == fstatus = "running" /\ kont # <<>> /\ TopItem.pc <= Len(TopItem.body) /\ Cur.op = op
\* the statement is done: on to the next one of the same block
Advance(k) == [k EXCEPT ![Len(k)].pc = @ + 1, ![Len(k)].res = NoResult]
\* the number of Function.call activations among the items above position c
CallsAbove(k, c) == Cardinality({i \in (c + 1)..Len(k) : k[i].k = "call"})
\* the innermost item of one of the kinds, the main item if there is none
Catcher(k, kinds) ==
    CHOOSE c \in DOMAIN k :
        /\ k[c].k \in kinds \cup {"main"}
        /\ \A i \in (c + 1)..Len(k) : k[i].k \notin kinds \cup {"main"}
\* the call the statement makes, if its expression is one
CallOf(st) ==
    IF st.op = "use" THEN CallExpr(st.name, st.args)
    ELSE IF st.op \in {"set", "write", "return"} /\ st.e.k = "call" THEN st.e
    ELSE [k |-> "absent"]
\* the statement has a call to make before it can complete
MustCall == CallOf(Cur).k = "call" /\ TopItem.res = NoResult
\* the value of the statement's expression
ExprValue(st, item) ==
    IF st.e.k = "call" THEN item.res ELSE EvalExpr(envs, st.e, item.env)

\* ---- the steps ----
NewBlockEnv(parent) == Append(envs, Environment(parent, "block"))
NewEnvIndex == Len(envs) + 1

\* a RuntimeErrorPoh leaves every activation; the finally clause of each
\* Function.call pops its entry of call_stack
FFail(words, ev) ==
    /\ fstatus' = "failed"
    /\ ferr' = [kind |-> "runtime", words |-> words]
    /\ kont' = <<>>
    /\ call_stack' = <<>>
    /\ fevent' = [ev |-> ev, ok |-> FALSE]
    /\ UNCHANGED <<envs, fout, fprog, collVars, modVars>>

\* a signal no construct catches leaves run() as a Python exception
FEscape(ev) ==
    /\ fstatus' = "escaped"
    /\ kont' = <<>>
    /\ call_stack' = <<>>
    /\ fevent' = [ev |-> ev, ok |-> FALSE]
    /\ UNCHANGED <<envs, fout, ferr, fprog, collVars, modVars>>

\* the step went through
FOk(ev) ==
    /\ fevent' = [ev |-> ev, ok |-> TRUE]
    /\ UNCHANGED <<fstatus, ferr, fprog, collVars, modVars>>

\* Interpreter.run(src) and the first pass of Interpreter.execute
FRun(p) ==
    /\ fstatus = "idle"
    /\ fprog' = p
    /\ envs' = <<[Environment(NoEnv, "global") EXCEPT !.values = Registry(p)]>>
    /\ kont' = <<Item("main", p.stmts, GlobalEnv, <<>>, FALSE)>>
    /\ call_stack' = <<>>
    /\ fout' = <<>>
    /\ fstatus' = "running"
    /\ fevent' = [ev |-> "run", ok |-> TRUE]
    /\ UNCHANGED <<ferr, collVars, modVars>>

\* the end of the second pass of Interpreter.execute
FFinish ==
    /\ AtBlockEnd
    /\ TopItem.k = "main"
    /\ fstatus' = "done"
    /\ kont' = <<>>
    /\ fevent' = [ev |-> "finish", ok |-> TRUE]
    /\ UNCHANGED <<envs, call_stack, fout, ferr, fprog, collVars, modVars>>

\* SetStmt, once the call of its expression (if any) has returned
FSet ==
    /\ At("set")
    /\ ~MustCall
    /\ LET v == ExprValue(Cur, TopItem)
       IN  IF IsFailure(v) THEN FFail(v.words, "set")
           ELSE /\ envs' = EnvironmentSet(envs, TopItem.env, Cur.name, v)
                /\ kont' = Advance(kont)
                /\ UNCHANGED <<call_stack, fout>>
                /\ FOk("set")

\* WriteStmt
FWrite ==
    /\ At("write")
    /\ ~MustCall
    /\ LET v == ExprValue(Cur, TopItem)
       IN  IF IsFailure(v) THEN FFail(v.words, "write")
           ELSE /\ fout' = Append(fout, StrOf(v))
                /\ kont' = Advance(kont)
                /\ UNCHANGED <<envs, call_stack>>
                /\ FOk("write")

\* UseStmt, once the call has returned: the result is dropped
FUse ==
    /\ At("use")
    /\ ~MustCall
    /\ kont' = Advance(kont)
    /\ UNCHANGED <<envs, call_stack, fout>>
    /\ FOk("use")

\* the Function a call names: UseStmt looks in Interpreter.functions only,
\* CallExpr there first and then in the environment
Callee(st, env) ==
    IF st.name \in DOMAIN Registry(fprog) THEN Registry(fprog)[st.name]
    ELSE IF st.op = "use" THEN Unbound
    ELSE LET v == EnvGet(envs, env, st.name)
         IN  IF v.t = "function" THEN v ELSE Unbound
ErrUnknownFunction(name) == <<"Unknown", "function", Quoted(name) \o ".">>

\* the message of a call with too few arguments, i the position of the first
\* parameter left without a value
ErrTooFew(decl, i) ==
    <<"Function", Quoted(decl.name), "defined", "at", "line", IntText(decl.line),
      "expects", "at", "least", IntText(i), "argument(s)">>
ErrTooMany(decl, n) ==
    <<"Function", Quoted(decl.name), "defined", "at", "line", IntText(decl.line),
      "takes", "at", "most", IntText(Len(decl.params)), "argument(s)",
      "but", "got", IntText(n)>>
ErrDefault(pname, words) ==
    <<"Error", "evaluating", "default", "for", "parameter", Quoted(pname) \o ":">> \o words

\* a call that starts from the frame of its caller
CallParentCaller(fn, callerEnv) == callerEnv
\* the frame a call starts from
CallParent(fn, callerEnv) == fn.closure

\* parameter values for which every default is evaluated, needed or not
FilledEager(fn, args) ==
    [i \in DOMAIN fn.decl.params |->
        IF fn.decl.defaults[i] = NoDefault
        THEN (IF i <= Len(args) THEN args[i] ELSE Failure(ErrTooFew(fn.decl, i)))
        ELSE LET dv == EvalExpr(envs, fn.decl.defaults[i], fn.closure)
             IN  IF IsFailure(dv)
                 THEN Failure(ErrDefault(fn.decl.params[i], dv.words))
                 ELSE IF i <= Len(args) THEN args[i] ELSE dv]
\* the values of the parameters of a call: the argument, else the default
\* evaluated in the closure
Filled(fn, args) ==
    [i \in DOMAIN fn.decl.params |->
        IF i <= Len(args) THEN args[i]
        ELSE IF fn.decl.defaults[i] = NoDefault THEN Failure(ErrTooFew(fn.decl, i))
        ELSE LET dv == EvalExpr(envs, fn.decl.defaults[i], fn.closure)
             IN  IF IsFailure(dv)
                 THEN Failure(ErrDefault(fn.decl.params[i], dv.words))
                 ELSE dv]
\* the first failure among values, Unbound if there is none
FirstFailure(vals) ==
    IF \E i \in DOMAIN vals : IsFailure(vals[i])
    THEN vals[CHOOSE i \in DOMAIN vals :
                 IsFailure(vals[i]) /\ \A j \in 1..(i - 1) : ~IsFailure(vals[j])]
    ELSE Unbound

\* the entry of Function.call for the call the current statement makes
FCall ==
    /\ fstatus = "running" /\ kont # <<>> /\ TopItem.pc <= Len(TopItem.body)
    /\ Cur.op \in {"set", "write", "return", "use"}
    /\ MustCall
    /\ LET c == CallOf(Cur)
           fn == Callee([op |-> Cur.op, name |-> c.name], TopItem.env)
           args == [i \in DOMAIN c.args |-> EvalExpr(envs, c.args[i], TopItem.env)]
       IN  IF fn = Unbound THEN FFail(ErrUnknownFunction(c.name), "call")
           ELSE IF FirstFailure(args) # Unbound THEN FFail(FirstFailure(args).words, "call")
           ELSE IF FirstFailure(Filled(fn, args)) # Unbound
                THEN FFail(FirstFailure(Filled(fn, args)).words, "call")
           ELSE IF Len(args) > Len(fn.decl.params)
                THEN FFail(ErrTooMany(fn.decl, Len(args)), "call")
           ELSE /\ envs' = Append(envs,
                              [Environment(CallParent(fn, TopItem.env), "function") EXCEPT
                                  !.values = [n \in {fn.decl.params[i] : i \in DOMAIN fn.decl.params} |->
                                                 Filled(fn, args)[CHOOSE i \in DOMAIN fn.decl.params :
                                                                      fn.decl.params[i] = n]]])
                /\ call_stack' = Append(call_stack, fn.decl.name)
                /\ kont' = Append(kont, Item("call", fn.decl.body, NewEnvIndex, <<>>, FALSE))
                /\ UNCHANGED fout
                /\ FOk("call")

\* catchers of _ReturnSignal that include the loops
ReturnCatchersWithLoops == {"call", "while", "repeat"}
\* the construct whose except clause catches _ReturnSignal
ReturnCatchers == {"call"}

\* ReturnStmt: _ReturnSignal travels to the innermost Function.call
FReturn ==
    /\ At("return")
    /\ ~MustCall
    /\ LET v == ExprValue(Cur, TopItem)
           c == Catcher(kont, ReturnCatchers)
       IN  IF IsFailure(v) THEN FFail(v.words, "return")
           ELSE IF kont[c].k = "main" THEN FEscape("return")
           ELSE /\ kont' = [SubSeq(kont, 1, c - 1) EXCEPT ![c - 1].res = v]
                /\ call_stack' = Pop(call_stack)
                /\ UNCHANGED <<envs, fout>>
                /\ FOk("return")

\* the body of a function ran to its end: the call yields None
FEndCall ==
    /\ AtBlockEnd
    /\ TopItem.k = "call"
    /\ kont' = [Pop(kont) EXCEPT ![Len(kont) - 1].res = Nothing]
    /\ call_stack' = Pop(call_stack)
    /\ UNCHANGED <<envs, fout>>
    /\ FOk("endcall")

\* IfStmt: the chosen body runs in a new block frame
FIf ==
    /\ At("if")
    /\ LET v == EvalExpr(envs, Cur.condition, TopItem.env)
           body == IF IsTruthy(v) THEN Cur.then_body ELSE Cur.else_body
       IN  IF IsFailure(v) THEN FFail(v.words, "if")
           ELSE IF body = NoElse
                THEN /\ kont' = Advance(kont)
                     /\ UNCHANGED <<envs, call_stack, fout>>
                     /\ FOk("if")
           ELSE /\ envs' = NewBlockEnv(TopItem.env)
                /\ kont' = Append(Advance(kont), Item("if", body, NewEnvIndex, <<>>, FALSE))
                /\ UNCHANGED <<call_stack, fout>>
                /\ FOk("if")

\* WhileStmt: one evaluation of the condition; each iteration runs in a new
\* block frame
FWhile ==
    /\ At("while")
    /\ LET v == EvalExpr(envs, Cur.condition, TopItem.env)
       IN  IF IsFailure(v) THEN FFail(v.words, "while")
           ELSE IF IsTruthy(v)
                THEN /\ envs' = NewBlockEnv(TopItem.env)
                     /\ kont' = Append(kont, Item("while", Cur.body, NewEnvIndex, <<>>, FALSE))
                     /\ UNCHANGED <<call_stack, fout>>
                     /\ FOk("while")
           ELSE /\ kont' = Advance(kont)
                /\ UNCHANGED <<envs, call_stack, fout>>
                /\ FOk("while")

\* the values a Repeat iterates over: range(n) for a number, the elements
\* of a list, nothing for a value int() does not take (a tuple among them)
Iterator(v) ==
    CASE v.t = "int" -> [i \in 1..v.i |-> IntVal(i - 1)]
      [] v.t = "list" -> v.items
      [] OTHER -> <<>>
\* the frame of one iteration of a Repeat
LoopEnv(parent, bindIt, current) ==
    IF bindIt THEN [Environment(parent, "block") EXCEPT !.values = ("it" :> current)]
    ELSE Environment(parent, "block")

\* RepeatStmt: the count is evaluated once, the first iteration starts
FRepeat ==
    /\ At("repeat")
    /\ LET v == EvalExpr(envs, Cur.count, TopItem.env)
           iterator == Iterator(v)
           bindIt == v.t = "list"
       IN  IF IsFailure(v) THEN FFail(v.words, "repeat")
           ELSE IF iterator = <<>>
                THEN /\ kont' = Advance(kont)
                     /\ UNCHANGED <<envs, call_stack, fout>>
                     /\ FOk("repeat")
           ELSE /\ envs' = Append(envs, LoopEnv(TopItem.env, bindIt, Head(iterator)))
                /\ kont' = Append(Advance(kont),
                                  Item("repeat", Cur.body, NewEnvIndex, Tail(iterator), bindIt))
                /\ UNCHANGED <<call_stack, fout>>
                /\ FOk("repeat")

\* BlockStmt (Begin ... End)
FBlock ==
    /\ At("begin")
    /\ envs' = NewBlockEnv(TopItem.env)
    /\ kont' = Append(Advance(kont), Item("begin", Cur.body, NewEnvIndex, <<>>, FALSE))
    /\ UNCHANGED <<call_stack, fout>>
    /\ FOk("begin")

\* the body of an If or a Begin ran to its end
FEndBlock ==
    /\ AtBlockEnd
    /\ TopItem.k \in {"if", "begin"}
    /\ kont' = Pop(kont)
    /\ UNCHANGED <<envs, call_stack, fout>>
    /\ FOk("endblock")

\* the loop whose item is at position c of k goes on to its next iteration:
\* a While evaluates its condition again, a Repeat takes its next value
NextIteration(k, c) ==
    IF k[c].k = "while" \/ k[c].rest = <<>> THEN SubSeq(k, 1, c - 1)
    ELSE Append(SubSeq(k, 1, c - 1),
                Item("repeat", k[c].body, NewEnvIndex, Tail(k[c].rest), k[c].bindIt))
NextIterationEnvs(k, c) ==
    IF k[c].k = "while" \/ k[c].rest = <<>> THEN envs
    ELSE Append(envs, LoopEnv(envs[k[c].env].parent, k[c].bindIt, Head(k[c].rest)))

\* the body of a While or a Repeat ran to its end
FEndIteration ==
    /\ AtBlockEnd
    /\ TopItem.k \in {"while", "repeat"}
    /\ kont' = NextIteration(kont, Len(kont))
    /\ envs' = NextIterationEnvs(kont, Len(kont))
    /\ UNCHANGED <<call_stack, fout>>
    /\ FOk("enditeration")

\* catchers of _BreakSignal and _ContinueSignal without the IfStmt
LoopSignalCatchersNoIf == {"while", "repeat"}
\* the constructs whose except clause catches _BreakSignal and _ContinueSignal
LoopSignalCatchers == {"if", "while", "repeat"}

\* StopStmt: _BreakSignal travels to the innermost construct that catches it
FStop ==
    /\ At("stop")
    /\ LET c == Catcher(kont, LoopSignalCatchers)
       IN  IF kont[c].k = "main" THEN FEscape("stop")
           ELSE /\ kont' = IF kont[c].k = "while" THEN Advance(SubSeq(kont, 1, c - 1))
                           ELSE SubSeq(kont, 1, c - 1)
                /\ call_stack' = SubSeq(call_stack, 1, Len(call_stack) - CallsAbove(kont, c))
                /\ UNCHANGED <<envs, fout>>
                /\ FOk("stop")

\* SkipStmt: _ContinueSignal travels to the innermost construct that catches it
FSkip ==
    /\ At("skip")
    /\ LET c == Catcher(kont, LoopSignalCatchers)
       IN  IF kont[c].k = "main" THEN FEscape("skip")
           ELSE /\ kont' = IF kont[c].k = "if" THEN SubSeq(kont, 1, c - 1)
                           ELSE NextIteration(kont, c)
                /\ envs' = IF kont[c].k = "if" THEN envs ELSE NextIterationEnvs(kont, c)
                /\ call_stack' = SubSeq(call_stack, 1, Len(call_stack) - CallsAbove(kont, c))
                /\ UNCHANGED fout
                /\ FOk("skip")

\* FunctionDefStmt: the second pass of execute passes over a top-level
\* definition; a nested one binds a Function closed over the current frame
FFunctionDef ==
    /\ At("def")
    /\ envs' = IF TopItem.k = "main" THEN envs
               ELSE EnvDefine(envs, TopItem.env, Cur.name, Function(Cur, TopItem.env))
    /\ kont' = Advance(kont)
    /\ UNCHANGED <<call_stack, fout>>
    /\ FOk("def")

\* ---- the parser ----
\* A source is a sequence of lines.  The lines the model writes are the block
\* openers "If 1 is 1", "While 1 is 2", "Repeat 1", "Begin" and "Make" (for
\* "Make f<n>" on line n), "Otherwise", the terminators, "Write" (for
\* "Write <n>" on line n), the unknown statement "Bogus" and the blank line.
\* Letter case and surrounding blanks are as written here.

\* the most lines a source has
MaxLines == 4

Blank == ""
Terminators == {"End", "End If", "End While", "End Repeat"}
LineTexts ==
    {"If 1 is 1", "While 1 is 2", "Repeat 1", "Begin", "Make", "Otherwise", "Write", "Bogus", Blank}
        \cup Terminators

\* parse_program: the lines that are not blank, each with its line number
RECURSIVE Cleaned(_, _)
Cleaned(lines, i) ==
    IF i > Len(lines) THEN <<>>
    ELSE (IF lines[i] = Blank THEN <<>> ELSE <<[ln |-> i, text |-> lines[i]]>>)
         \o Cleaned(lines, i + 1)

\* the block a line opens, "none" if it opens none
OpenerOf(text) ==
    CASE text = "If 1 is 1" -> "if"
      [] text = "While 1 is 2" -> "while"
      [] text = "Repeat 1" -> "repeat"
      [] text = "Begin" -> "begin"
      [] text = "Make" -> "make"
      [] OTHER -> "none"
\* terminators that close any block
ClosersAny(kind) == Terminators
\* the lines that close a block of the kind ("else" is the Otherwise part of an If)
Closers(kind) ==
    CASE kind \in {"if", "else"} -> {"End", "End If"}
      [] kind = "while" -> {"End", "End While"}
      [] kind = "repeat" -> {"End", "End Repeat"}
      [] OTHER -> {"End"}
\* l2.startswith("end ")
StartsWithEnd(text) == text \in Terminators \ {"End"}

\* a ParseError: its line and its message, the first word apart
ParseError(words, ln) == [ok |-> FALSE, line |-> ln, words |-> words]
ErrMismatched(text, kind) ==
    <<"Mismatched",
      "'" \o text \o "'; expected " \o
         (CASE kind \in {"if", "else"} -> "'End' or 'End If'"
            [] kind = "while" -> "'End' or 'End While'"
            [] kind = "repeat" -> "'End' or 'End Repeat'"
            [] OTHER -> "'End'")>>
ErrNotClosed(kind) ==
    CASE kind \in {"if", "else"} -> <<"If", "block not closed with End/End If">>
      [] kind = "while" -> <<"While", "block not closed with End/End While">>
      [] kind = "repeat" -> <<"Repeat", "block not closed with End/End Repeat">>
      [] kind = "begin" -> <<"Block", "starting at Begin not closed with End">>
      [] OTHER -> <<"Function", "block not closed with End">>
ErrUnknownStatement(text) == <<"Unknown", "statement: " \o text>>

\* a statement node with its line
AtLine(st, ln) == st @@ [line |-> ln]

\* a single-line parser that takes an unknown statement for a Write
ParseSingleStmtLenient(ln, text) ==
    [ok |-> TRUE, stmt |-> AtLine(WriteStmt(Num(ln)), ln)]
\* _parse_single_stmt
ParseSingleStmt(ln, text) ==
    IF text = "Write" THEN [ok |-> TRUE, stmt |-> AtLine(WriteStmt(Num(ln)), ln)]
    ELSE ParseError(ErrUnknownStatement(text), ln)

\* the node of a block opened on line ln, its bodies parsed
BlockNode(kind, ln, first, body) ==
    CASE kind = "if" -> AtLine(IfStmt(BinaryExpr("==", Num(1), Num(1)), body, NoElse), ln)
      [] kind = "else" -> AtLine(IfStmt(BinaryExpr("==", Num(1), Num(1)), first, body), ln)
      [] kind = "while" -> AtLine(WhileStmt(BinaryExpr("==", Num(1), Num(2)), body), ln)
      [] kind = "repeat" -> AtLine(RepeatStmt(Num(1), body), ln)
      [] kind = "begin" -> AtLine(BlockStmt(body), ln)
      [] kind = "make" -> FunctionDef("f" \o IntText(ln), <<>>, <<>>, body, ln)

RECURSIVE ParseStmtOrBlock(_, _), ParseBlock(_, _, _, _, _, _)
\* the loop of _parse_stmt_or_block that collects the body of the block of
\* the kind opened on line ln, from entry i of cleaned on; first is the
\* then-part of an If whose Otherwise has been met
ParseBlock(cleaned, i, kind, ln, first, body) ==
    IF i > Len(cleaned) THEN ParseError(ErrNotClosed(kind), ln)
    ELSE IF kind = "if" /\ cleaned[i].text = "Otherwise"
         THEN ParseBlock(cleaned, i + 1, "else", ln, body, <<>>)
    ELSE IF cleaned[i].text \in Closers(kind)
         THEN [ok |-> TRUE, stmt |-> BlockNode(kind, ln, first, body), next |-> i + 1]
    ELSE IF StartsWithEnd(cleaned[i].text)
         THEN ParseError(ErrMismatched(cleaned[i].text, kind), cleaned[i].ln)
    ELSE LET r == ParseStmtOrBlock(cleaned, i)
         IN  IF ~r.ok THEN r
             ELSE ParseBlock(cleaned, r.next, kind, ln, first, Append(body, r.stmt))
\* _parse_stmt_or_block
ParseStmtOrBlock(cleaned, i) ==
    IF OpenerOf(cleaned[i].text) # "none"
    THEN ParseBlock(cleaned, i + 1, OpenerOf(cleaned[i].text), cleaned[i].ln, <<>>, <<>>)
    ELSE LET r == ParseSingleStmt(cleaned[i].ln, cleaned[i].text)
         IN  IF r.ok THEN [ok |-> TRUE, stmt |-> r.stmt, next |-> i + 1] ELSE r

\* the loop of parse_program from entry i on
RECURSIVE ParseFrom(_, _, _)
ParseFrom(cleaned, i, stmts) ==
    IF i > Len(cleaned) THEN [ok |-> TRUE, stmts |-> stmts]
    ELSE LET r == ParseStmtOrBlock(cleaned, i)
         IN  IF ~r.ok THEN r ELSE ParseFrom(cleaned, r.next, Append(stmts, r.stmt))
\* parse_program
ParseProgram(lines) == ParseFrom(Cleaned(lines, 1), 1, <<>>)

\* Interpreter.run(src): the source is parsed as a whole, then executed
FRunSource(lines) ==
    LET r == ParseProgram(lines)
    IN  /\ fstatus = "idle"
        /\ fprog' = [id |-> "source", lines |-> lines, stmts |-> IF r.ok THEN r.stmts ELSE <<>>]
        /\ IF r.ok
           THEN /\ envs' = <<[Environment(NoEnv, "global") EXCEPT
                                 !.values = Registry([stmts |-> r.stmts])]>>
                /\ kont' = <<Item("main", r.stmts, GlobalEnv, <<>>, FALSE)>>
                /\ fstatus' = "running"
                /\ ferr' = ferr
                /\ fevent' = [ev |-> "run", ok |-> TRUE]
           ELSE /\ envs' = envs
                /\ kont' = kont
                /\ fstatus' = "failed"
                /\ ferr' = [kind |-> "parse", words |-> r.words, line |-> r.line]
                /\ fevent' = [ev |-> "run", ok |-> FALSE]
        /\ call_stack' = <<>>
        /\ fout' = <<>>
        /\ UNCHANGED <<collVars, modVars>>

\* the sources of n lines the host runs
Sources(n) == [1..n -> LineTexts]

\* ---- the programs the host runs ----
Plus(l, r) == BinaryExpr("+", l, r)
Less(l, r) == BinaryExpr("<", l, r)
Is(l, r) == BinaryExpr("==", l, r)
Args == 1..MaxArg

\* Stop, Skip, Return i, or a statement without effect on control
Signals == {"stop", "skip", "return", "none"}
Signal(sig) ==
    CASE sig = "stop" -> StopStmt
      [] sig = "skip" -> SkipStmt
      [] sig = "return" -> ReturnStmt(Id("i"))
      [] sig = "none" -> SetStmt("k", Num(0))
\* the signal directly in the loop body, inside "If i is n", inside
\* "If i is 0 ... Otherwise", inside "Begin", or inside two nested Ifs
Write0 == WriteStmt(Num(0))
Wraps == {"direct", "if", "otherwise", "begin", "ifif"}
Wrap(wrap, sig, n) ==
    CASE wrap = "direct" -> Signal(sig)
      [] wrap = "if" -> IfStmt(Is(Id("i"), Num(n)), <<Signal(sig)>>, NoElse)
      [] wrap = "otherwise" -> IfStmt(Is(Id("i"), Num(0)), <<Write0>>, <<Signal(sig)>>)
      [] wrap = "begin" -> BlockStmt(<<Signal(sig)>>)
      [] wrap = "ifif" ->
            IfStmt(Is(Id("i"), Num(n)),
                   <<IfStmt(Is(Id("i"), Num(n)), <<Signal(sig)>>, NoElse)>>, NoElse)
Loops == {"while", "repeat"}
\* While i < MaxArg + 1 ... End   or   Repeat MaxArg + 1 ... End
Loop(loop, body) ==
    IF loop = "while" THEN WhileStmt(Less(Id("i"), Num(MaxArg + 1)), body)
    ELSE RepeatStmt(Num(MaxArg + 1), body)

\*   Make ctl with n
\*       [Set j to 0
\*        While j < 2
\*           Set j to j + 1]
\*       Set i to 0
\*       <loop>
\*           Set i to i + 1
\*           <wrapped signal>
\*           Write i
\*       End
\*       Write 8
\*       [End]
\*       Write 9
\*       Return 7
\*   End
\*   Write ctl(n)
CtlLoop(loop, wrap, sig, n) ==
    <<SetStmt("i", Num(0)),
      Loop(loop, <<SetStmt("i", Plus(Id("i"), Num(1))), Wrap(wrap, sig, n), WriteStmt(Id("i"))>>),
      WriteStmt(Num(8))>>
CtlBody(loop, wrap, sig, n, nest) ==
    (IF nest
     THEN <<SetStmt("j", Num(0)),
            WhileStmt(Less(Id("j"), Num(2)),
                      <<SetStmt("j", Plus(Id("j"), Num(1)))>> \o CtlLoop(loop, wrap, sig, n))>>
     ELSE CtlLoop(loop, wrap, sig, n))
    \o <<WriteStmt(Num(9)), ReturnStmt(Num(7))>>
CtlProgram(loop, wrap, sig, n, nest) ==
    [id |-> "ctl", loop |-> loop, wrap |-> wrap, sig |-> sig, n |-> n, nest |-> nest,
     stmts |-> <<FunctionDef("ctl", <<"n">>, <<NoDefault>>, CtlBody(loop, wrap, sig, n, nest), 1),
                 WriteStmt(CallExpr("ctl", <<Num(n)>>))>>]
CtlPrograms ==
    {CtlProgram(loop, wrap, sig, n, nest) :
        loop \in Loops, wrap \in Wraps, sig \in Signals, n \in Args, nest \in BOOLEAN}

\*   [Make g with c]
\*       If c is 1
\*           Write 1
\*           <Stop | Skip>
\*           Write 2
\*       Otherwise
\*           Write 3
\*           <Stop | Skip>
\*           Write 4
\*       End
\*       Write 5
\*       [<Stop | Skip>]      (outside the If)
\*       [Return 6
\*   End
\*   Write g(c)]
CondBody(sig, bare) ==
    <<IfStmt(Is(Id("c"), Num(1)),
             <<WriteStmt(Num(1)), Signal(sig), WriteStmt(Num(2))>>,
             <<WriteStmt(Num(3)), Signal(sig), WriteStmt(Num(4))>>),
      WriteStmt(Num(5))>>
    \o (IF bare THEN <<Signal(sig)>> ELSE <<>>)
CondProgram(sig, c, inFunction, bare) ==
    [id |-> "cond", sig |-> sig, c |-> c, inFunction |-> inFunction, bare |-> bare,
     stmts |-> IF inFunction
               THEN <<FunctionDef("g", <<"c">>, <<NoDefault>>,
                                  CondBody(sig, bare) \o <<ReturnStmt(Num(6))>>, 1),
                      WriteStmt(CallExpr("g", <<Num(c)>>)),
                      WriteStmt(Num(7))>>
               ELSE <<SetStmt("c", Num(c))>> \o CondBody(sig, bare) \o <<WriteStmt(Num(7))>>]
CondPrograms ==
    {CondProgram(sig, c, inFunction, bare) :
        sig \in {"stop", "skip"}, c \in 0..1, inFunction \in BOOLEAN, bare \in BOOLEAN}

\*   Make callee with a
\*       Set mine to a
\*       <If mine is a | While mine < a + 1 | Repeat 1 | Begin>
\*           Write mine
\*           Set mine to mine + 1
\*           Set tmp to 4
\*           Write tmp
\*       End
\*       Write mine
\*       [Write tmp | Write loc | Set loc to 5, Write loc]
\*       Return mine
\*   End
\*   Make outer with a
\*       Set loc to a
\*       Set r to callee(a)
\*       Write loc
\*       [Write mine]
\*       Set r2 to callee(a + 1)
\*       Return r + r2
\*   End
\*   Write outer(n)
BlockKinds == {"if", "while", "repeat", "begin"}
BlockOf(kind, body) ==
    CASE kind = "if" -> IfStmt(Is(Id("mine"), Id("a")), body, NoElse)
      [] kind = "while" -> WhileStmt(Less(Id("mine"), Plus(Id("a"), Num(1))), body)
      [] kind = "repeat" -> RepeatStmt(Num(1), body)
      [] kind = "begin" -> BlockStmt(body)
Probes == {"none", "tmp", "loc", "setloc", "mine"}
CalleeProbe(probe) ==
    CASE probe = "tmp" -> <<WriteStmt(Id("tmp"))>>
      [] probe = "loc" -> <<WriteStmt(Id("loc"))>>
      [] probe = "setloc" -> <<SetStmt("loc", Num(5)), WriteStmt(Id("loc"))>>
      [] OTHER -> <<>>
ScopeProgram(kind, probe, n) ==
    [id |-> "scope", kind |-> kind, probe |-> probe, n |-> n,
     stmts |->
       <<FunctionDef("callee", <<"a">>, <<NoDefault>>,
            <<SetStmt("mine", Id("a")),
              BlockOf(kind, <<WriteStmt(Id("mine")),
                              SetStmt("mine", Plus(Id("mine"), Num(1))),
                              SetStmt("tmp", Num(4)),
                              WriteStmt(Id("tmp"))>>),
              WriteStmt(Id("mine"))>>
            \o CalleeProbe(probe)
            \o <<ReturnStmt(Id("mine"))>>, 1),
         FunctionDef("outer", <<"a">>, <<NoDefault>>,
            <<SetStmt("loc", Id("a")),
              SetStmt("r", CallExpr("callee", <<Id("a")>>)),
              WriteStmt(Id("loc"))>>
            \o (IF probe = "mine" THEN <<WriteStmt(Id("mine"))>> ELSE <<>>)
            \o <<SetStmt("r2", CallExpr("callee", <<Plus(Id("a"), Num(1))>>)),
                 ReturnStmt(Plus(Id("r"), Id("r2")))>>, 14),
         WriteStmt(CallExpr("outer", <<Num(n)>>))>>]
ScopePrograms == {ScopeProgram(kind, probe, n) : kind \in BlockKinds, probe \in Probes, n \in Args}

\* blocks at the top level:
\*   "plain":  Set y to n / Begin / Set y to y + 1 / Set z to 3 / End / Write y / Write z
\*   "def":    Set y to n / If y is n / Make y with a / Return a / End / Set y to n + 1 / End / Write y
\*   "it":     Set xs to List contains 1, n / Set it to 9 / Repeat xs / Set it to 5 / Write it / End / Write it
\*   "iter":   Set xs to List contains 1, n / Set y to 0 / Repeat xs / Set y to y + it / End / Write y
ShadowVariants == {"plain", "def", "it", "iter"}
ShadowProgram(variant, n) ==
    [id |-> "shadow", variant |-> variant, n |-> n,
     stmts |->
       CASE variant = "plain" ->
              <<SetStmt("y", Num(n)),
                BlockStmt(<<SetStmt("y", Plus(Id("y"), Num(1))), SetStmt("z", Num(3))>>),
                WriteStmt(Id("y")), WriteStmt(Id("z"))>>
         [] variant = "def" ->
              <<SetStmt("y", Num(n)),
                IfStmt(Is(Id("y"), Num(n)),
                       <<FunctionDef("y", <<"a">>, <<NoDefault>>, <<ReturnStmt(Id("a"))>>, 3),
                         SetStmt("y", Plus(Num(n), Num(1)))>>, NoElse),
                WriteStmt(Id("y"))>>
         [] variant = "it" ->
              <<SetStmt("xs", ListLiteralExpr(<<Num(1), Num(n)>>)),
                SetStmt("it", Num(9)),
                RepeatStmt(Id("xs"),
                           <<SetStmt("it", Num(5)), WriteStmt(Id("it"))>>),
                WriteStmt(Id("it"))>>
         [] variant = "iter" ->
              <<SetStmt("xs", ListLiteralExpr(<<Num(1), Num(n)>>)),
                SetStmt("y", Num(0)),
                RepeatStmt(Id("xs"),
                           <<SetStmt("y", Plus(Id("y"), Id("it")))>>),
                WriteStmt(Id("y"))>>]
ShadowPrograms == {ShadowProgram(variant, n) : variant \in ShadowVariants, n \in Args}

\*   Make outer with a
\*       Set loc to a + 5
\*       Make inner with b
\*           <Return loc + b | Set loc to b, Return 0>
\*       End
\*       Set r to inner(1)
\*       Write loc
\*       Return r
\*   End
\*   Write outer(n)
NestedProgram(mode, n) ==
    [id |-> "nested", mode |-> mode, n |-> n,
     stmts |->
       <<FunctionDef("outer", <<"a">>, <<NoDefault>>,
            <<SetStmt("loc", Plus(Id("a"), Num(5))),
              FunctionDef("inner", <<"b">>, <<NoDefault>>,
                  IF mode = "read" THEN <<ReturnStmt(Plus(Id("loc"), Id("b")))>>
                  ELSE <<SetStmt("loc", Id("b")), ReturnStmt(Num(0))>>, 3),
              SetStmt("r", CallExpr("inner", <<Num(1)>>)),
              WriteStmt(Id("loc")),
              ReturnStmt(Id("r"))>>, 1),
         WriteStmt(CallExpr("outer", <<Num(n)>>))>>]
NestedPrograms == {NestedProgram(mode, n) : mode \in {"read", "write"}, n \in Args}

\*   Make make_adder with a
\*       Make inner with b
\*           Return a + b
\*       End
\*       Return inner
\*   End
\*   Set add1 to make_adder(n1)
\*   Set add2 to make_adder(n2)
\*   Write add1(3)
\*   Write add2(3)
\*   Write add1(1)
AdderProgram(n1, n2) ==
    [id |-> "adder", n1 |-> n1, n2 |-> n2,
     stmts |->
       <<FunctionDef("make_adder", <<"a">>, <<NoDefault>>,
            <<FunctionDef("inner", <<"b">>, <<NoDefault>>,
                          <<ReturnStmt(Plus(Id("a"), Id("b")))>>, 2),
              ReturnStmt(Id("inner"))>>, 1),
         SetStmt("add1", CallExpr("make_adder", <<Num(n1)>>)),
         SetStmt("add2", CallExpr("make_adder", <<Num(n2)>>)),
         WriteStmt(CallExpr("add1", <<Num(3)>>)),
         WriteStmt(CallExpr("add2", <<Num(3)>>)),
         WriteStmt(CallExpr("add1", <<Num(1)>>))>>]
AdderPrograms == {AdderProgram(n1, n2) : n1 \in Args, n2 \in Args \cup {5}}

\*   Set base to n
\*   Make f with a, b set to <base | nodef>
\*       Return a + b
\*   End
\*   Write f(1[, 5])
\*   Set base to m
\*   Write f(1[, 5])
DefaultsProgram(n, m, dflt, supplied) ==
    [id |-> "defaults", n |-> n, m |-> m, dflt |-> dflt, supplied |-> supplied,
     stmts |->
       LET call == CallExpr("f", IF supplied THEN <<Num(1), Num(5)>> ELSE <<Num(1)>>)
       IN  <<SetStmt("base", Num(n)),
             FunctionDef("f", <<"a", "b">>, <<NoDefault, Id(dflt)>>,
                         <<ReturnStmt(Plus(Id("a"), Id("b")))>>, 2),
             WriteStmt(call),
             SetStmt("base", Num(m)),
             WriteStmt(call)>>]
DefaultsPrograms ==
    {DefaultsProgram(n, m, dflt, supplied) :
        n \in Args, m \in {10 + a : a \in Args}, dflt \in {"base", "nodef"}, supplied \in BOOLEAN}

\*   Make add with a, b[, c]
\*       Write 0
\*       Return a + b
\*   End
\*   <Write add(1, ...) | Use add with 1, ...>
\*   Write 1
ArityProgram(nparams, nargs, how) ==
    [id |-> "arity", nparams |-> nparams, nargs |-> nargs, how |-> how,
     stmts |->
       LET args == [i \in 1..nargs |-> Num(1)]
       IN  <<FunctionDef("add", SubSeq(<<"a", "b", "c">>, 1, nparams),
                         [i \in 1..nparams |-> NoDefault],
                         <<Write0, ReturnStmt(Plus(Id("a"), Id("b")))>>, 1),
             IF how = "use" THEN UseStmt("add", args) ELSE WriteStmt(CallExpr("add", args)),
             WriteStmt(Num(1))>>]
ArityPrograms ==
    {ArityProgram(nparams, nargs, how) :
        nparams \in 2..3, nargs \in 0..(MaxArg + 2), how \in {"use", "write"}}

\*   Make h with a
\*       Set k to 0
\*       [<If a is 1 | While a is 1 | Repeat a + -1 | Begin>
\*           Return a
\*       End]
\*   End
\*   Write h(n)
\*   Write 3
FallKinds == {"bare", "if", "while", "repeat", "begin"}
FallProgram(kind, n) ==
    [id |-> "fall", kind |-> kind, n |-> n,
     stmts |->
       LET body == <<ReturnStmt(Id("a"))>>
       IN  <<FunctionDef("h", <<"a">>, <<NoDefault>>,
                <<SetStmt("k", Num(0))>>
                \o (CASE kind = "bare" -> <<>>
                      [] kind = "if" -> <<IfStmt(Is(Id("a"), Num(1)), body, NoElse)>>
                      [] kind = "while" -> <<WhileStmt(Is(Id("a"), Num(1)), body)>>
                      [] kind = "repeat" -> <<RepeatStmt(Plus(Id("a"), Num(-1)), body)>>
                      [] kind = "begin" -> <<BlockStmt(body)>>), 1),
             WriteStmt(CallExpr("h", <<Num(n)>>)),
             WriteStmt(Num(3))>>]
FallPrograms == {FallProgram(kind, n) : kind \in FallKinds, n \in Args}


\*   Make h with a
\*       Write a
\*       <Stop | Skip>
\*       Write 7
\*   End
\*   Set i to 0
\*   <While i < MaxArg + 1 | Repeat MaxArg + 1>
\*       Set i to i + 1
\*       <Set r to h(i) | Use h with i | If i is i, Use h with i, End>
\*       Write 8
\*   End
\*   Write 9
LeakCalls == {"set", "use", "if"}
LeakProgram(sig, loop, how) ==
    [id |-> "leak", sig |-> sig, loop |-> loop, how |-> how,
     stmts |->
       <<FunctionDef("h", <<"a">>, <<NoDefault>>,
                     <<WriteStmt(Id("a")), Signal(sig), WriteStmt(Num(7))>>, 1),
         SetStmt("i", Num(0)),
         Loop(loop, <<SetStmt("i", Plus(Id("i"), Num(1))),
                      CASE how = "set" -> SetStmt("r", CallExpr("h", <<Id("i")>>))
                        [] how = "use" -> UseStmt("h", <<Id("i")>>)
                        [] how = "if" -> IfStmt(Is(Id("i"), Id("i")),
                                                <<UseStmt("h", <<Id("i")>>)>>, NoElse),
                      WriteStmt(Num(8))>>),
         WriteStmt(Num(9))>>]
LeakPrograms ==
    {LeakProgram(sig, loop, how) : sig \in {"stop", "skip"}, loop \in Loops, how \in LeakCalls}

\*   [Make f with a
\*       Return 1
\*   End]
\*   Make outer with a
\*       Make f with b
\*           Return a + 1
\*       End
\*       Write f(0)
\*       Set g to f
\*       Write g(0)
\*       Return 0
\*   End
\*   Write outer(n)
RebindProgram(toplevel, n) ==
    [id |-> "rebind", toplevel |-> toplevel, n |-> n,
     stmts |->
       (IF toplevel
        THEN <<FunctionDef("f", <<"a">>, <<NoDefault>>, <<ReturnStmt(Num(1))>>, 1)>>
        ELSE <<>>)
       \o <<FunctionDef("outer", <<"a">>, <<NoDefault>>,
               <<FunctionDef("f", <<"b">>, <<NoDefault>>,
                             <<ReturnStmt(Plus(Id("a"), Num(1)))>>, 5),
                 WriteStmt(CallExpr("f", <<Num(0)>>)),
                 SetStmt("g", Id("f")),
                 WriteStmt(CallExpr("g", <<Num(0)>>)),
                 ReturnStmt(Num(0))>>, 4),
            WriteStmt(CallExpr("outer", <<Num(n)>>))>>]
RebindPrograms == {RebindProgram(toplevel, n) : toplevel \in BOOLEAN, n \in Args}

\*   <Make a list of 1, .., len | Make a mutable list of .. | Set it to List contains ..>
\*   Set xs to it
\*   Set s to 0
\*   Repeat xs
\*       Write it
\*       Set s to s + it
\*       Set it to 0
\*   End
\*   Write s
Provenances == {"immutable", "mutable", "legacy"}
ListOf(prov, items) ==
    IF prov = "legacy" THEN ListLiteralExpr(items) ELSE MakeListExpr(items, prov = "mutable")
ProvenanceProgram(prov, len) ==
    [id |-> "provenance", prov |-> prov, len |-> len,
     stmts |->
       <<SetStmt("it", ListOf(prov, [i \in 1..len |-> Num(i)])),
         SetStmt("xs", Id("it")),
         SetStmt("s", Num(0)),
         RepeatStmt(Id("xs"),
                    <<WriteStmt(Id("it")),
                      SetStmt("s", Plus(Id("s"), Id("it"))),
                      SetStmt("it", Num(0))>>),
         WriteStmt(Id("s"))>>]
ProvenancePrograms == {ProvenanceProgram(prov, len) : prov \in Provenances, len \in 0..MaxArg}

Programs ==
    LeakPrograms \cup RebindPrograms \cup ProvenancePrograms
        \cup FallPrograms \cup CtlPrograms \cup CondPrograms \cup ScopePrograms \cup ShadowPrograms
        \cup NestedPrograms \cup AdderPrograms \cup DefaultsPrograms \cup ArityPrograms

FNext ==
    \/ \E p \in Programs : FRun(p)
    \/ fstatus = "idle" /\ \E n \in 1..MaxLines : \E lines \in Sources(n) : FRunSource(lines)
    \/ FSet
    \/ FWrite
    \/ FUse
    \/ FCall
    \/ FReturn
    \/ FEndCall
    \/ FIf
    \/ FWhile
    \/ FRepeat
    \/ FBlock
    \/ FEndBlock
    \/ FEndIteration
    \/ FStop
    \/ FSkip
    \/ FFunctionDef
    \/ FFinish

SpecFn == CollInit /\ [][FNext]_vars

(***************************************************************************)
(* Claims about functions, blocks and loops                                *)
(***************************************************************************)

\* the items of the activation of Function.call at position i: the call item
\* and the blocks running inside it
SameCall(i, j) == i <= j /\ j <= Len(kont) /\ \A m \in (i + 1)..j : kont[m].k # "call"
ParamsOf(decl) == {decl.params[i] : i \in DOMAIN decl.params}

\* C11: a name that no enclosing scope binds and that a statement directly in
\* a function's body assigns is bound in the function frame of that call (and
\* nowhere else); that frame is on the scope chain of every statement of the
\* call, nested blocks included, and stays bound; it is not on the scope chain
\* of the caller, and every call starts from a frame of its own that holds
\* the parameters only.
C11_FunctionLocalBinding ==
    /\ [](\A i \in DOMAIN kont :
            kont[i].k = "call" =>
                /\ envs[kont[i].env].frame_type = "function"
                /\ \A j \in i..Len(kont) :
                      SameCall(i, j) => kont[i].env \in Chain(envs, kont[j].env)
                /\ kont[i].env \notin Chain(envs, kont[i - 1].env))
    /\ [][(FSet /\ fevent'.ok /\ TopItem.k = "call"
              /\ Defining(envs, TopItem.env, Cur.name) = NoEnv) =>
            /\ Cur.name \in DOMAIN envs'[TopItem.env].values
            /\ Len(envs') = Len(envs)
            /\ \A e \in DOMAIN envs : e # TopItem.env => envs'[e] = envs[e]]_vars
    /\ [][\A e \in DOMAIN envs :
            /\ e \in DOMAIN envs'
            /\ envs'[e].parent = envs[e].parent
            /\ DOMAIN envs[e].values \subseteq DOMAIN envs'[e].values]_vars
    /\ [][(FCall /\ fevent'.ok) =>
            /\ Len(envs') = Len(envs) + 1
            /\ kont'[Len(kont')].env = Len(envs')
            /\ \A i \in DOMAIN kont : kont[i].env # Len(envs')
            /\ DOMAIN envs'[Len(envs')].values
                  = ParamsOf(Callee([op |-> Cur.op, name |-> CallOf(Cur).name], TopItem.env).decl)]_vars

\* the caller has read, after the call returned, the name the callee had
\* assigned in its body, and got the undefined-variable error
C11_Witness ==
    /\ fstatus = "failed"
    /\ fprog # NoProgram
    /\ fprog.id = "scope"
    /\ fprog.probe = "mine"
    /\ ferr.words = ErrUndefinedVariable("mine")
    /\ Len(fout) > 2

BlockItems == {"if", "while", "repeat", "begin"}
\* the frame outside the block of the top item that binds the name, if any
EnclosingBinding(name) == Defining(envs, envs[TopItem.env].parent, name)
\* a successful assignment by a statement directly in a block
SetInBlock == FSet /\ fevent'.ok /\ TopItem.k \in BlockItems
\* the frame of a block is no longer in scope once the block has ended, and
\* an assignment to a name no scope binds yet binds it in the block's frame
BlockLocalNames ==
    /\ [](\A j \in DOMAIN kont :
            kont[j].k \in BlockItems => kont[j].env \notin Chain(envs, kont[j - 1].env))
    /\ [][(SetInBlock /\ Defining(envs, TopItem.env, Cur.name) = NoEnv) =>
            /\ envs'[TopItem.env].values = (Cur.name :> ExprValue(Cur, TopItem)) @@ envs[TopItem.env].values
            /\ \A e \in DOMAIN envs : e # TopItem.env => envs'[e] = envs[e]]_vars

CalledFunction == Callee([op |-> Cur.op, name |-> CallOf(Cur).name], TopItem.env)
\* a call has been entered
Entered == FCall /\ fevent'.ok

\* C13: a nested definition binds a Function closed over the frame that runs
\* the definition; a call of it, also after the defining call has returned,
\* starts from that frame, so it reads the outer call's parameters as they
\* are there.  With make_adder(a) returning inner(b) = a + b, the results of
\* make_adder(n1) and make_adder(n2) called with 3, 3 and 1 yield n1 + 3,
\* n2 + 3 and n1 + 1.
C13_ClosuresKeepOuterParameters ==
    /\ []((fprog # NoProgram /\ fprog.id = "adder") =>
            /\ fstatus # "failed"
            /\ fstatus = "done" =>
                  fout = <<IntText(fprog.n1 + 3), IntText(fprog.n2 + 3), IntText(fprog.n1 + 1)>>)
    /\ [][(FFunctionDef /\ TopItem.k # "main") =>
            /\ envs'[TopItem.env].values[Cur.name].t = "function"
            /\ envs'[TopItem.env].values[Cur.name].closure = TopItem.env]_vars
    /\ [][Entered =>
            /\ envs'[Len(envs')].parent = CalledFunction.closure
            /\ \A name \in DOMAIN envs[CalledFunction.closure].values \ ParamsOf(CalledFunction.decl) :
                  EnvGet(envs', Len(envs'), name) = envs[CalledFunction.closure].values[name]]_vars

\* make_adder(2) and make_adder(5) have returned and their results, called
\* with 3, 3 and 1, have yielded 5, 8 and 3
C13_Witness ==
    /\ fstatus = "done"
    /\ fprog # NoProgram
    /\ fprog.id = "adder"
    /\ fprog.n1 = 2
    /\ fprog.n2 = 5
    /\ fout = <<"5", "8", "3">>

\* an assignment changes no frame outside the scope chain of its statement,
\* and writing a name that neither the scope chain nor the registry binds is
\* the undefined-variable error
OutOfScopeUntouched ==
    /\ [][(FSet /\ fevent'.ok) =>
            \A e \in DOMAIN envs : e \notin Chain(envs, TopItem.env) => envs'[e] = envs[e]]_vars
    /\ [][(FWrite /\ Cur.e.k = "id" /\ Defining(envs, TopItem.env, Cur.e.n) = NoEnv
              /\ Cur.e.n \notin DOMAIN Registry(fprog)) =>
            /\ fstatus' = "failed"
            /\ ferr'.words = ErrUndefinedVariable(Cur.e.n)]_vars
\* a call starts from a new function frame whose parent is the closure
NewFrameOnClosure ==
    /\ Len(envs') = Len(envs) + 1
    /\ envs'[Len(envs')].frame_type = "function"
    /\ envs'[Len(envs')].parent = CalledFunction.closure

\* C14 as stated: every call creates a new function frame whose parent is the
\* closure of the called function and never the environment of the caller:
\* the frame of a calling function or block is not in scope in the body.
C14_Original ==
    /\ [][Entered =>
            /\ NewFrameOnClosure
            /\ TopItem.env # GlobalEnv => TopItem.env \notin Chain(envs', Len(envs'))]_vars
    /\ OutOfScopeUntouched

\* C14, amended: every call creates a new function frame whose parent is the
\* closure of the called function; the frame of the caller is in scope in the
\* body exactly when it is on the chain of that closure (a function defined
\* in the caller's frame and called from it).  The body cannot assign a
\* variable of a frame that is not on that chain, and reading a name bound
\* only in such frames is the undefined-variable error.
C14_CallFrameParentIsClosure ==
    /\ [][Entered =>
            /\ NewFrameOnClosure
            /\ TopItem.env \in Chain(envs', Len(envs'))
                  <=> TopItem.env \in Chain(envs, CalledFunction.closure)]_vars
    /\ OutOfScopeUntouched

\* callee, called from outer, has read outer's local loc and got the
\* undefined-variable error
C14_Witness ==
    /\ fstatus = "failed"
    /\ fprog # NoProgram
    /\ fprog.id = "scope"
    /\ fprog.probe = "loc"
    /\ ferr.words = ErrUndefinedVariable("loc")
    /\ Len(fout) = 3

\* the values of the arguments of the call the current statement makes
ArgValues == [i \in DOMAIN CallOf(Cur).args |-> EvalExpr(envs, CallOf(Cur).args[i], TopItem.env)]
\* the current statement is about to call a known function with arguments
\* that evaluate
CallReady ==
    /\ CalledFunction # Unbound
    /\ \A i \in DOMAIN ArgValues : ~IsFailure(ArgValues[i])

\* C15: a call binds each parameter it omits to the value its default
\* expression has in the closure environment at the time of the call, and
\* each parameter it supplies to the argument; a call that supplies every
\* parameter goes through whatever its defaults would evaluate to.  With
\* "Make f with a, b set to base" the calls f(1) made while base is n and
\* then m yield 1 + n and 1 + m.
C15_DefaultsAtCallTime ==
    /\ [][Entered =>
            \A i \in DOMAIN CalledFunction.decl.params :
                envs'[Len(envs')].values[CalledFunction.decl.params[i]] =
                    IF i <= Len(ArgValues) THEN ArgValues[i]
                    ELSE EvalExpr(envs, CalledFunction.decl.defaults[i], CalledFunction.closure)]_vars
    /\ [][(FCall /\ CallReady /\ Len(ArgValues) = Len(CalledFunction.decl.params)) =>
            fevent'.ok]_vars
    /\ []((fprog # NoProgram /\ fprog.id = "defaults" /\ fstatus = "done"
               /\ fprog.dflt = "base" /\ ~fprog.supplied) =>
            fout = <<IntText(1 + fprog.n), IntText(1 + fprog.m)>>)

\* f(1) has yielded 1 + n while base was n and 1 + m after base became m
C15_Witness ==
    /\ fstatus = "done"
    /\ fprog # NoProgram
    /\ fprog.id = "defaults"
    /\ fprog.dflt = "base"
    /\ ~fprog.supplied
    /\ fprog.n = 1
    /\ fout = <<"2", IntText(1 + fprog.m)>>

\* the words sub occur in seq, in this order and next to each other
IsInfix(sub, seq) ==
    \E k \in 0..(Len(seq) - Len(sub)) : \A i \in DOMAIN sub : seq[k + i] = sub[i]
\* the call the current statement is about to make has too few or too many
\* arguments for the function it calls
MissingRequired ==
    \E i \in DOMAIN CalledFunction.decl.params :
        i > Len(ArgValues) /\ CalledFunction.decl.defaults[i] = NoDefault
ArityMismatch ==
    CallReady /\ (MissingRequired \/ Len(ArgValues) > Len(CalledFunction.decl.params))

\* C16: a call with fewer arguments than the function has parameters without
\* defaults, or with more arguments than parameters, raises a runtime error
\* before any statement of the body runs, and the message names the function,
\* the line of its definition and the expected and the actual number of
\* arguments: "... defined at line L ..." and, for too few arguments,
\* "expects P argument(s) but got N", P the number of parameters.
C16_ArityErrorMessage ==
    [][(FCall /\ ArityMismatch) =>
         /\ fstatus' = "failed"
         /\ fout' = fout
         /\ envs' = envs
         /\ IsInfix(<<Quoted(CalledFunction.decl.name)>>, ferr'.words)
         /\ IsInfix(<<"defined", "at", "line", IntText(CalledFunction.decl.line)>>, ferr'.words)
         /\ IsInfix(<<IntText(Len(CalledFunction.decl.params)), "argument(s)", "but", "got",
                      IntText(Len(ArgValues))>>, ferr'.words)
         /\ MissingRequired =>
               IsInfix(<<"expects", IntText(Len(CalledFunction.decl.params)), "argument(s)",
                         "but", "got", IntText(Len(ArgValues))>>, ferr'.words)]_vars

\* the position in kont of the innermost running loop, 0 if there is none
NearestLoop ==
    IF \E i \in DOMAIN kont : kont[i].k \in {"while", "repeat"}
    THEN CHOOSE i \in DOMAIN kont :
            /\ kont[i].k \in {"while", "repeat"}
            /\ \A j \in (i + 1)..Len(kont) : kont[j].k \notin {"while", "repeat"}
    ELSE 0
\* the current statement is in the body of the innermost loop, directly or
\* inside If blocks of that body
InLoopBody ==
    /\ NearestLoop # 0
    /\ \A j \in (NearestLoop + 1)..Len(kont) : kont[j].k = "if"
\* the position of the loop statement in the block that runs the loop
LoopStmtPos(L) == IF kont[L].k = "while" THEN kont[L - 1].pc ELSE kont[L - 1].pc - 1
\* the blocks outside the loop at position L are as they were, but for the
\* position of the block that runs the loop
OuterKept(L) ==
    /\ Len(kont') >= L - 1
    /\ \A j \in 1..(L - 2) : kont'[j] = kont[j]
    /\ kont'[L - 1].body = kont[L - 1].body
    /\ kont'[L - 1].env = kont[L - 1].env
\* the loop at position L has ended: its block goes on after the loop statement
LoopEnded(L) ==
    /\ OuterKept(L)
    /\ Len(kont') = L - 1
    /\ kont'[L - 1].pc = LoopStmtPos(L) + 1
\* the loop at position L is at its next iteration: a While is about to
\* evaluate its condition again, a Repeat starts its next value or, after the
\* last one, has ended
LoopContinues(L) ==
    /\ OuterKept(L)
    /\ IF kont[L].k = "while"
       THEN Len(kont') = L - 1 /\ kont'[L - 1].pc = LoopStmtPos(L)
       ELSE IF kont[L].rest = <<>> THEN LoopEnded(L)
       ELSE /\ Len(kont') = L
            /\ kont'[L].k = "repeat"
            /\ kont'[L].body = kont[L].body
            /\ kont'[L].pc = 1
            /\ kont'[L].rest = Tail(kont[L].rest)

\* C17: a Stop executed in the body of a While or Repeat loop, directly or
\* inside If blocks of that body, ends that innermost loop (no further
\* iteration, no further evaluation of its condition) and leaves the outer
\* blocks running; a Skip executed there ends the iteration and the loop goes
\* on to its next one.
C17_StopSkipInLoop ==
    /\ [][(FStop /\ InLoopBody) => (fstatus' = "running" /\ LoopEnded(NearestLoop))]_vars
    /\ [][(FSkip /\ InLoopBody) => (fstatus' = "running" /\ LoopContinues(NearestLoop))]_vars

\* the position in kont of the innermost item of the kinds, 0 if there is none
Innermost(kinds) ==
    IF \E i \in DOMAIN kont : kont[i].k \in kinds
    THEN CHOOSE i \in DOMAIN kont :
            kont[i].k \in kinds /\ \A j \in (i + 1)..Len(kont) : kont[j].k \notin kinds
    ELSE 0
\* the current statement is in an If body (directly or inside Begin blocks of
\* it) that no loop of the same function body or program encloses
InIfOutsideLoops ==
    LET I == Innermost({"if"})
        F == Innermost({"call", "main"})
    IN  /\ I # 0
        /\ \A j \in (I + 1)..Len(kont) : kont[j].k = "begin"
        /\ \A j \in F..I : kont[j].k \notin {"while", "repeat"}

\* C18: a Stop or Skip executed in an If body that is in no loop raises no
\* error and writes nothing; the rest of the If body is dropped and the block
\* that ran the If goes on with the statement after the If.
C18_StopSkipInIfOutsideLoop ==
    /\ [](\A i \in DOMAIN kont :
            kont[i].k = "if" =>
                /\ kont[i - 1].pc > 1
                /\ kont[i - 1].body[kont[i - 1].pc - 1].op = "if")
    /\ [][((FStop \/ FSkip) /\ InIfOutsideLoops) =>
            /\ fstatus' = "running"
            /\ ferr' = ferr
            /\ fout' = fout
            /\ envs' = envs
            /\ call_stack' = call_stack
            /\ kont' = SubSeq(kont, 1, Innermost({"if"}) - 1)]_vars

\* "If c is 1 / Write 1 / Stop / Write 2 / Otherwise ... End / Write 5 /
\* Write 7" at the top level has written 1, 5 and 7 and ended without error
C18_Witness ==
    /\ fstatus = "done"
    /\ fprog # NoProgram
    /\ fprog.id = "cond"
    /\ fprog.sig = "stop"
    /\ ~fprog.inFunction
    /\ ~fprog.bare
    /\ fprog.c = 1
    /\ fout = <<"1", "5", "7">>

\* the value the current Return statement returns
Returned == ExprValue(Cur, TopItem)
\* the call at position C of kont has ended with the value v: its items are
\* gone, its caller is where it was and holds v as the value of the call
CallEnded(C, v) ==
    /\ Len(kont') = C - 1
    /\ \A j \in 1..(C - 2) : kont'[j] = kont[j]
    /\ kont'[C - 1] = [kont[C - 1] EXCEPT !.res = v]
    /\ call_stack' = SubSeq(call_stack, 1, Len(call_stack) - 1)
    /\ fout' = fout
    /\ envs' = envs
    /\ fstatus' = "running"

\* C19: in a function body a Return, at the top level of the body or at any
\* depth inside If, While, Repeat or Begin blocks, ends the call at once with
\* the returned value: no block of the call is left to run a later statement
\* or a further iteration.  A body that reaches its end yields None.
C19_ReturnEndsCall ==
    /\ [][(FReturn /\ Innermost({"call"}) # 0 /\ ~IsFailure(Returned)) =>
            CallEnded(Innermost({"call"}), Returned)]_vars
    /\ [][FEndCall => CallEnded(Len(kont), Nothing)]_vars
    /\ []((fprog # NoProgram /\ fprog.id = "ctl" /\ fprog.sig = "return" /\ fstatus = "done"
              /\ fprog.wrap \in {"if", "ifif"}) =>
            fout = [i \in 1..fprog.n |-> IntText(i)])

\* "Return i" inside "If i is 2" inside the loop inside the outer While of
\* ctl has ended ctl(2): 1 and the result 2 were written, 8 and 9 were not
C19_Witness ==
    /\ fstatus = "done"
    /\ fprog # NoProgram
    /\ fprog.id = "ctl"
    /\ fprog.sig = "return"
    /\ fprog.wrap = "if"
    /\ fprog.nest
    /\ fprog.n = 2
    /\ fout = <<"1", "2">>

\* C22: whenever run ends abnormally, what the caller gets is a parse error
\* or a RuntimeErrorPoh; the signals of Return, Stop and Skip never reach
\* the caller, wherever those statements stand in the program.
C22_OnlyErrorsReachTheCaller ==
    [](fstatus \notin {"idle", "running", "done"} =>
            /\ fstatus = "failed"
            /\ ferr.kind \in {"parse", "runtime"})

\* the current statement is in a function body and no loop of that body
\* encloses it
InCallOutsideLoops ==
    /\ Innermost({"call"}) # 0
    /\ \A j \in Innermost({"call"})..Len(kont) : kont[j].k \notin {"while", "repeat"}
\* the activation (function body or program) that made the innermost call
CallerOf(C) ==
    CHOOSE F \in 1..(C - 1) :
        kont[F].k \in {"call", "main"} /\ \A j \in (F + 1)..(C - 1) : kont[j].k \notin {"call", "main"}
\* the innermost call was made from inside a While or Repeat body of its caller
CalledFromLoop ==
    \E j \in CallerOf(Innermost({"call"}))..(Innermost({"call"}) - 1) :
        kont[j].k \in {"while", "repeat"}
\* the blocks of the activations below position C are where they were
CallersKept(C) ==
    /\ fstatus' = "running"
    /\ Len(kont') >= C - 1
    /\ \A j \in 1..(C - 1) :
          /\ kont'[j].k = kont[j].k
          /\ kont'[j].body = kont[j].body
          /\ kont'[j].pc = kont[j].pc
          /\ kont'[j].env = kont[j].env
          /\ kont'[j].rest = kont[j].rest

\* C27: a Stop or Skip executed in a function body outside any loop of that
\* function, in a call made from inside a While or Repeat body, leaves the
\* caller's loop alone: the loop and every block of the caller stay where
\* they are, to carry on with the statement after the call; having written
\* a in h(a), the program then writes 8 for every iteration and 9 at the end.
C27_StopSkipStaysInFunction ==
    /\ [][((FStop \/ FSkip) /\ InCallOutsideLoops /\ CalledFromLoop) =>
            CallersKept(Innermost({"call"}))]_vars
    /\ []((fprog # NoProgram /\ fprog.id = "leak" /\ fstatus = "done") =>
            /\ Len(fout) > 2
            /\ fout[2] # "9"
            /\ fout[Len(fout)] = "9"
            /\ fout[Len(fout) - 1] = "8")

\* the value the name of the current statement's call is bound to, as a read
\* of the name finds it from the current frame
BoundCallee == EnvGet(envs, TopItem.env, CallOf(Cur).name)

\* C28: a call expression f(args) made where a binding of f to a function is
\* in scope invokes that binding, the innermost one, also when the registry
\* of top-level functions holds another function named f: the call runs the
\* body of the function a read of f yields, from that function's closure.
C28_CallResolvesLikeRead ==
    [][(Entered /\ Cur.op # "use" /\ BoundCallee.t = "function") =>
            /\ kont'[Len(kont')].body = BoundCallee.decl.body
            /\ envs'[Len(envs')].parent = BoundCallee.closure]_vars

\* the value the current Repeat statement iterates over
RepeatValue == EvalExpr(envs, Cur.count, TopItem.env)
\* a fresh block frame under parent that binds "it" to the element
IterationFrame(parent, element) ==
    [parent |-> parent, frame_type |-> "block", values |-> ("it" :> element)]
\* the first (or next) iteration over elements has started in the block body
IterationStarted(below, body, parent, elements) ==
    /\ Len(kont') = below + 1
    /\ kont'[below + 1].k = "repeat"
    /\ kont'[below + 1].body = body
    /\ kont'[below + 1].pc = 1
    /\ kont'[below + 1].rest = Tail(elements)
    /\ Len(envs') = Len(envs) + 1
    /\ kont'[below + 1].env = Len(envs')
    /\ envs'[Len(envs')] = IterationFrame(parent, Head(elements))

\* C29: Repeat over a list, be it strict-immutable, mutable or legacy, runs
\* its body once per element, in order, each time in a fresh block frame that
\* binds "it" to the element; over no elements it runs nothing.  The program
\* that writes "it" per iteration and the sum at the end writes 1, .., len
\* and len * (len + 1) / 2.
C29_RepeatOverList ==
    /\ [][(FRepeat /\ RepeatValue.t \in {"list", "tuple"}) =>
            IF RepeatValue.items = <<>>
            THEN kont' = Advance(kont) /\ envs' = envs
            ELSE IterationStarted(Len(kont), Cur.body, TopItem.env, RepeatValue.items)]_vars
    /\ [][(FEndIteration /\ TopItem.k = "repeat" /\ TopItem.bindIt) =>
            IF TopItem.rest = <<>>
            THEN kont' = Pop(kont) /\ envs' = envs
            ELSE IterationStarted(Len(kont) - 1, TopItem.body, envs[TopItem.env].parent,
                                  TopItem.rest)]_vars
    /\ []((fprog # NoProgram /\ fprog.id = "provenance" /\ fstatus = "done") =>
            fout = [i \in 1..(fprog.len + 1) |->
                       IF i <= fprog.len THEN IntText(i)
                       ELSE IntText((fprog.len * (fprog.len + 1)) \div 2)])

(***************************************************************************)
(* Claims about the parser.                                                *)
(***************************************************************************)
\* The blocks of a source, found by one pass that keeps the open blocks on a
\* stack: an opener pushes its kind and line, "Otherwise" marks the If on
\* top, a plain "End" or the typed terminator of the block on top pops it.
\* The pass yields "closed" with the depth of every statement when all
\* blocks are closed at the end, "mismatch" with the line of a typed
\* terminator that does not belong to the block on top, "open" with the line
\* of the block on top at the end of the input, and "other" at a line that
\* is no statement where it stands.
TypedTerminator(kind) ==
    CASE kind = "if" -> "End If"
      [] kind = "while" -> "End While"
      [] kind = "repeat" -> "End Repeat"
      [] OTHER -> "none"
RECURSIVE Scan(_, _, _, _)
Scan(cleaned, i, stack, nest) ==
    IF i > Len(cleaned)
    THEN IF stack = <<>> THEN [what |-> "closed", line |-> 0, nest |-> nest]
         ELSE [what |-> "open", line |-> stack[Len(stack)].ln, nest |-> nest]
    ELSE LET text == cleaned[i].text
             ln == cleaned[i].ln
             top == stack[Len(stack)]
             here == nest \cup {<<ln, Len(stack)>>}
         IN  CASE OpenerOf(text) # "none" ->
                    Scan(cleaned, i + 1,
                         Append(stack, [kind |-> OpenerOf(text), ln |-> ln, otherwise |-> FALSE]),
                         here)
               [] text = "Write" -> Scan(cleaned, i + 1, stack, here)
               [] text = "Otherwise" ->
                    IF stack # <<>> /\ top.kind = "if" /\ ~top.otherwise
                    THEN Scan(cleaned, i + 1, [stack EXCEPT ![Len(stack)].otherwise = TRUE], nest)
                    ELSE [what |-> "other", line |-> ln, nest |-> nest]
               [] text \in Terminators ->
                    IF stack = <<>> THEN [what |-> "other", line |-> ln, nest |-> nest]
                    ELSE IF text = "End" \/ text = TypedTerminator(top.kind)
                         THEN Scan(cleaned, i + 1, Pop(stack), nest)
                    ELSE [what |-> "mismatch", line |-> ln, nest |-> nest]
               [] OTHER -> [what |-> "other", line |-> ln, nest |-> nest]
Scanned == Scan(Cleaned(fprog.lines, 1), 1, <<>>, {})
\* the line and the depth of every statement of a parsed program
RECURSIVE NestOf(_, _)
NestOf(stmts, depth) ==
    UNION {{<<stmts[i].line, depth>>}
              \cup (CASE stmts[i].op = "if" ->
                           NestOf(stmts[i].then_body, depth + 1)
                              \cup (IF stmts[i].else_body = NoElse THEN {}
                                    ELSE NestOf(stmts[i].else_body, depth + 1))
                      [] stmts[i].op \in {"while", "repeat", "begin", "def"} ->
                           NestOf(stmts[i].body, depth + 1)
                      [] OTHER -> {}) : i \in DOMAIN stmts}
\* run has just been called with a source
JustRun == fprog # NoProgram /\ fprog.id = "source" /\ fevent.ev = "run"
ParseFailed == fstatus = "failed" /\ ferr.kind = "parse"

\* C24: run parses the whole source before it executes anything: when a line
\* of the source is a parse error (an unknown statement, a terminator or an
\* Otherwise that belongs to no block, a block left open), run raises
\* ParseError, the output sink has received nothing and no variable or
\* function has been bound, whatever statements precede the line.
C24_ParseBeforeExecute ==
    /\ ((fprog # NoProgram /\ fprog.id = "source" /\ Scanned.what # "closed") =>
            /\ ParseFailed
            /\ fout = <<>>
            /\ envs = <<>>
            /\ kont = <<>>
            /\ call_stack = <<>>)
    /\ (ParseFailed => fout = <<>> /\ envs = <<>>)

\* run("Write 1 / Bogus / Write 3") has raised the ParseError of line 2 and
\* nothing was written
C24_Witness ==
    /\ fprog # NoProgram
    /\ fprog.id = "source"
    /\ fprog.lines = <<"Write", "Bogus", "Write">>
    /\ ParseFailed
    /\ ferr.line = 2
    /\ fout = <<>>

\* C25: a plain End closes the innermost open block and a typed terminator
\* closes it when it is the terminator of that block's kind, so that a source
\* whose blocks are all closed this way parses into the statements nested as
\* the blocks are; a typed terminator met while the innermost open block is
\* of another kind raises a ParseError "Mismatched ..." with the terminator's
\* line, and in no other case; the end of the input with a block still open
\* raises a ParseError with the line of the opener of the innermost open block.
C25_BlockTerminators ==
    JustRun =>
         (/\ Scanned.what = "closed" =>
                /\ fstatus = "running"
                /\ NestOf(kont[1].body, 0) = Scanned.nest
          /\ Scanned.what = "mismatch" =>
                /\ ParseFailed
                /\ ferr.words[1] = "Mismatched"
                /\ ferr.line = Scanned.line
          /\ Scanned.what = "open" =>
                /\ ParseFailed
                /\ ferr.words = ErrNotClosed(CHOOSE k \in {"if", "while", "repeat", "begin", "make"} :
                                                OpenerOf(fprog.lines[Scanned.line]) = k)
                /\ ferr.line = Scanned.line
          /\ (ParseFailed /\ ferr.words[1] = "Mismatched") => Scanned.what = "mismatch")

\* run("While 1 is 2 / Begin / End If") has raised "Mismatched 'End If';
\* expected 'End'" for line 3
C25_Witness ==
    /\ JustRun
    /\ fprog.lines = <<"While 1 is 2", "Begin", "End If">>
    /\ ParseFailed
    /\ ferr.line = 3
    /\ ferr.words = <<"Mismatched", "'End If'; expected 'End'">>

(***************************************************************************)
(* A claim about the parsing of Remove.                                    *)
(***************************************************************************)
\* C30: "Remove <value> from <xs>" on a mutable list removes the first
\* element equal to the value, and changes nothing when no element equals
\* it, whatever the form of the value expression: a number, or a string
\* literal in quotes (which equals no element of a list of numbers).
C30_RemoveValueFromMutableList ==
    [][\A t \in CNames, ln \in Lines :
          (Bound(t) /\ obj.cls = "PohList" /\ obj.mutable) =>
             /\ \A v \in CVals :
                   CRemove(NumberSrc(v), t, ln) =>
                      /\ cstatus' = "running"
                      /\ obj' = [obj EXCEPT !.items = SeqRemoveFirst(obj.items, v)]
             /\ \A k \in CKeys :
                   CRemove(QuotedSrc(k), t, ln) =>
                      /\ cstatus' = "running"
                      /\ obj' = obj]_collVars

(***************************************************************************)
(* Claims about the runs that fail.                                        *)
(***************************************************************************)
\* a step in which a statement raises a runtime error of its own
StatementFails ==
    /\ status = "running"
    /\ status' = "raising"
    /\ err'.kind \in {"undefined", "unknownfn"}

\* C21: the file in the prefix of a runtime error is the file that contains
\* the statement that failed: the imported file when a statement of it fails
\* while the import is executing, and the imported file also when the
\* failing statement is in a function that file defines and the importing
\* program calls.
C21_ErrorNamesTheFailingFile ==
    [][StatementFails => err'.file = lastEvent'.path]_vars

\* the stacks and markers as the invocations of run and run_file in progress
\* determine them
RECURSIVE CwdOf(_)
CwdOf(fr) ==
    IF fr = <<>> THEN HostDir
    ELSE IF fr[Len(fr)].kind = "file" THEN fr[Len(fr)].path.dir
    ELSE CwdOf(Pop(fr))
StacksFollowFrames ==
    /\ import_stack = FilePaths(frames)
    /\ file_stack = [i \in DOMAIN frames |-> frames[i].path]
    /\ current_file = IF frames = <<>> THEN NoFile ELSE Top.path
    /\ cwd = CwdOf(frames)
\* a call of run_file that returns or raises at once
ReturnsAtOnce ==
    /\ lastEvent'.ev \in {"noop", "circular", "notfound", "parse"}
    /\ lastEvent' # lastEvent \/ calls' # calls \/ frames' # frames \/ status' # status
\* an invocation of run_file returns or is left by an exception
LeavesFile == Len(frames') < Len(frames) /\ Top.kind = "file"

\* C23: after run_file has returned or raised, on any path (success, already
\* loaded, circular import, file not found, parse error, runtime error in the
\* file or in a nested import), the import stack, the file stack, the
\* current-file marker and the working directory are what they were before
\* the call: a call that ends at once changes none of them, a call that ran
\* the file puts back the marker and the directory it found and pops what it
\* pushed, and at every moment the four are those of the invocations in
\* progress.
C23_RunFileRestores ==
    /\ []StacksFollowFrames
    /\ [][ReturnsAtOnce => UNCHANGED <<import_stack, file_stack, current_file, cwd>>]_vars
    /\ [][LeavesFile =>
            /\ current_file' = Top.prev
            /\ cwd' = Top.cwd_before
            /\ import_stack' = Pop(import_stack)
            /\ file_stack' = Pop(file_stack)]_vars

\* run_file(q) has failed in a/util, two imports down and in another
\* directory, and the host finds the stacks, the marker and the directory as
\* it left them
C23_Witness ==
    /\ status = "failed"
    /\ calls = 1
    /\ err = [kind |-> "circular", file |-> AUtil]
    /\ lastEvent = Event("unwind", QFile)
    /\ import_stack = <<>>
    /\ file_stack = <<>>
    /\ current_file = NoFile
    /\ cwd = HostDir

\* a call of run_file(full), by the host or by an Import statement
RunFileCalled(full) ==
    \/ status \in {"idle", "failed"} /\ calls' = calls + 1 /\ lastEvent'.path = full
          /\ lastEvent'.ev # "run"
    \/ Importing(full) /\ lastEvent'.path = full
          /\ lastEvent'.ev \in {"noop", "circular", "notfound", "parse", "enter"}

\* C26: a path is in loaded_files only if its execution through run_file
\* completed without error: a path is added only by the step that ends its
\* invocation normally; a step that raises or passes on an error adds no
\* path and makes no export entry; so a file whose run failed is not marked
\* loaded, and a later run_file of a path that is not marked loaded (and is
\* not being imported, exists and parses) executes the file from its first
\* statement.
C26_LoadedOnlyOnSuccess ==
    /\ [][loaded_files' # loaded_files =>
            /\ AtEnd("file")
            /\ lastEvent' = Event("finish", Top.path)
            /\ loaded_files' = loaded_files \cup {Top.path}
            /\ status' \in {"idle", "running"}]_vars
    /\ [][status' \in {"raising", "failed"} =>
            /\ loaded_files' = loaded_files
            /\ modules' = modules
            /\ exportsOf' = exportsOf]_vars
    /\ [](lastEvent.ev = "unwind" => lastEvent.path \notin loaded_files)
    /\ [][\A full \in Files :
            (RunFileCalled(full) /\ full \notin loaded_files /\ ~OnImportStack(full)
                /\ Parses(full)) =>
               /\ lastEvent' = Event("enter", full)
               /\ Len(frames') = Len(frames) + 1
               /\ frames'[Len(frames')].path = full
               /\ frames'[Len(frames')].pc = 1]_vars

\* run_file(user) failed in bad, which user imports, after bad had written
\* "B"; now run_file(bad) has executed the first statement of bad again
C26_Witness ==
    /\ calls = 2
    /\ status = "running"
    /\ output = <<"U", "B", "B">>
    /\ Len(frames) = 1
    /\ Top.path = BadFile
    /\ Top.pc = 2
    /\ BadFile \notin loaded_files
    /\ modules[ModuleName(BadFile)] = NoEntry
====
